---------------------------- MODULE Spec2Model ----------------------------
(***************************************************************************)
(* Choreography core of the SkyCity scene (src/src/App.cpp,                *)
(* src/src/ParticleSystem.cpp, src/src/Camera.cpp).                        *)
(*                                                                         *)
(* Units.  Time is counted in ticks, TicksPerSecond ticks to the second;   *)
(* every time of the configuration is a whole number of seconds, so the    *)
(* double-precision sums of the code are exact on this grid.  Lengths are  *)
(* in 1/1000 of a world unit.  Yaw and pitch are in units of 2^-18 degree  *)
(* (the float32 ulp of the binade [32,64)); F32 rounds a value of that     *)
(* grid to 24 significant bits, round-half-to-even, as a float32           *)
(* operation does.  The field of view is in 1/1000 degree.                 *)
(***************************************************************************)
EXTENDS Integers, Sequences, FiniteSets, TLC

VARIABLES
    m_config,                 \* AppConfig the App was constructed with
    pc,                       \* position in the frame loop of App::run
    deltaSeconds,             \* the frame delta of the running frame
    m_totalTime,
    m_camera,                 \* Camera: position, yaw, pitch, fov
    m_reachedKeyframe3,
    m_missileExploded,
    m_missileExplosionTime,
    m_missileExplosionPosition,
    m_resumingToKeyframe4,
    m_airplaneDisappearTime,
    m_cameraWhenAirplaneDisappeared,  \* position, yaw, pitch snapshot
    m_airplaneActive,
    m_airplaneSpawnTime,
    m_airplaneHasSpawned,
    m_airplanePosition,
    m_missileActive,
    m_missileHasSpawned,
    m_missileSpawnTime,
    m_missilePosition,
    m_missileVelocity,
    m_missileRotationAngle,
    m_wingmanPosition,        \* m_wingmanLeft1Position ... m_wingmanRight2Position
    meshTransform,            \* transform of the airplane, wingman and missile meshes
    frameLog,                 \* observations of the running frame (history)
    runLog,                   \* observations of the whole run (history)
    m_flagExists,
    m_flagAnimationTime,
    m_flagUpdatePending,
    m_flagUpdateFuture,       \* the job m_flagUpdateFuture refers to, 0 if none
    flagJobs,                 \* the std::async jobs launched and not yet collected
    flagMesh,                 \* time stamp of the vertices of mesh "flag"
    flagLog,                  \* observations of the running frame (history)
    flagRun,                  \* whether App::run has left its loop, and what it left behind
    lanternConfig,            \* the lantern fields of m_config
    lanternTotalTime,         \* m_totalTime as updateLanterns reads it
    m_lanternInstances,
    m_lanternSpawnTimer,
    lanternLog,               \* observations of the running frame (history)
    m_maxParticles,
    m_particles,
    particleLog,              \* the last call on the particle system (history)
    parallelThreshold,        \* the size above which update splits the list
    updatePc,                 \* position of the running ParticleSystem::update
    updateThreads,            \* index range and next index of each thread
    updateLog,                \* observations of the running update (history)
    yawInput,                 \* a pair of start / end yaw values
    yawOutput,                \* what the yaw interpolation makes of it
    generatorCalls,           \* the calls of updateFlagVertices made so far (history)
    sceneMeshes,              \* the names the renderer holds a mesh for
    warned,                   \* the names whose static warned flag is set
    meshLog,                  \* misses and error lines per mesh name (history)
    meshEntities,             \* life cycle and update count of each entity
    trailConfig,              \* the airplane trail fields of m_config
    m_particleSystem,         \* whether the pointer holds a ParticleSystem
    m_trailSpawnAccumulators,
    trailLog                  \* the last call of updateParticleEffects (history)

frameVars == << m_config, pc, deltaSeconds, m_totalTime, m_camera,
                m_reachedKeyframe3, m_missileExploded, m_missileExplosionTime,
                m_missileExplosionPosition, m_resumingToKeyframe4,
                m_airplaneDisappearTime, m_cameraWhenAirplaneDisappeared,
                m_airplaneActive, m_airplaneSpawnTime, m_airplaneHasSpawned,
                m_airplanePosition, m_missileActive, m_missileHasSpawned,
                m_missileSpawnTime, m_missilePosition, m_missileVelocity,
                m_missileRotationAngle, m_wingmanPosition, meshTransform,
                frameLog, runLog >>

flagVars == << m_flagExists, m_flagAnimationTime, m_flagUpdatePending,
               m_flagUpdateFuture, flagJobs, flagMesh, flagLog, flagRun >>

yawVars == << yawInput, yawOutput >>

generatorVars == << generatorCalls >>

meshVars == << sceneMeshes, warned, meshLog, meshEntities >>

lanternVars == << lanternConfig, lanternTotalTime, m_lanternInstances,
                  m_lanternSpawnTimer, lanternLog >>

updateVars == << parallelThreshold, updatePc, updateThreads, updateLog >>

particleVars == << m_maxParticles, m_particles, particleLog, updateVars >>

trailVars == << trailConfig, m_particleSystem, m_trailSpawnAccumulators, trailLog >>

vars == << frameVars, flagVars, lanternVars, particleVars, yawVars, generatorVars, meshVars,
           trailVars >>

\* what a step of one part of the program leaves alone
notFrameVars == << flagVars, lanternVars, particleVars, yawVars, generatorVars,
    meshVars, trailVars >>
notFlagVars == << frameVars, lanternVars, particleVars, yawVars, generatorVars,
    meshVars, trailVars >>
notLanternVars == << frameVars, flagVars, particleVars, yawVars, generatorVars,
    meshVars, trailVars >>
notParticleVars == << frameVars, flagVars, lanternVars, yawVars, generatorVars,
    meshVars, trailVars >>
notYawVars == << frameVars, flagVars, lanternVars, particleVars, generatorVars, meshVars, trailVars >>
notGeneratorVars == << frameVars, flagVars, lanternVars, particleVars, yawVars, meshVars, trailVars >>
notMeshVars == << frameVars, flagVars, lanternVars, particleVars, yawVars, generatorVars, trailVars >>

----------------------------------------------------------------------------
(* Bounds of the model *)

TicksPerSecond == 2
MaxDeltaTicks == 2
MaxTimeSeconds == 42

MaxFlagTimeSeconds == 4
MaxLanternTimeSeconds == 4
MaxParticles == 3
MaxGeneratorCalls == 3
MaxMeshUpdates == 2

MaxTime == MaxTimeSeconds * TicksPerSecond
MaxFlagTime == MaxFlagTimeSeconds * TicksPerSecond
MaxLanternTime == MaxLanternTimeSeconds * TicksPerSecond
Seconds(s) == s * TicksPerSecond

----------------------------------------------------------------------------
(* Arithmetic helpers *)

Abs(n) == IF n < 0 THEN -n ELSE n
Min2(a, b) == IF a <= b THEN a ELSE b
Max2(a, b) == IF a >= b THEN a ELSE b
Clamp(x, lo, hi) == Min2(Max2(x, lo), hi)

\* x * p / q rounded to the nearest integer, for q > 0, without forming x * p
MulDiv(x, p, q) == (x \div q) * p + (2 * (x % q) * p + q) \div (2 * q)

VecAdd(a, b) == << a[1] + b[1], a[2] + b[2], a[3] + b[3] >>
VecSub(a, b) == << a[1] - b[1], a[2] - b[2], a[3] - b[3] >>
VecMulDiv(a, p, q) == << MulDiv(a[1], p, q), MulDiv(a[2], p, q), MulDiv(a[3], p, q) >>
Zero3 == << 0, 0, 0 >>

\* float32 rounding of a value given in units of 2^-18: 24 significant bits,
\* ties to the even mantissa
F32Quantum(a) ==
    IF a < 16777216 THEN 1
    ELSE IF a < 33554432 THEN 2
    ELSE IF a < 67108864 THEN 4
    ELSE IF a < 134217728 THEN 8
    ELSE 16

F32(n) ==
    LET a == Abs(n)
        qn == F32Quantum(a)
        lo == (a \div qn) * qn
        r == a - lo
        up == IF 2 * r > qn THEN TRUE
              ELSE IF 2 * r < qn THEN FALSE
              ELSE ((lo \div qn) % 2) = 1
        m == IF up THEN lo + qn ELSE lo
    IN  IF n < 0 THEN -m ELSE m

Deg(d) == d * 262144

----------------------------------------------------------------------------
(* AppConfig: the options the choreography reads.  Times are in seconds,   *)
(* lengths in world units, angles in degrees, as in AppConfig.h.           *)

DefaultConfig ==
    [ enableCameraMotion           |-> TRUE,
      enableAirplaneCameraTracking |-> TRUE,
      airplaneCameraFollowPosition |-> FALSE,
      airplaneSpawnTime            |-> 16,
      airplaneLifetime             |-> 15,
      airplaneSpeed                |-> 3000,
      airplaneHeight               |-> 8000,
      airplaneStartPosition        |-> << -20000, 0, -8000 >>,
      airplaneCameraDistance       |-> 2000,
      airplaneCameraHeight         |-> 600,
      missileDropTime              |-> 6,
      missileFallSpeed             |-> 700,
      missileFallAngle             |-> 60,
      missileRotationSpeed         |-> 180,
      groundHeight                 |-> 6000,
      missileCameraTrackDelay      |-> 2,
      missileCameraDistance        |-> 200,
      missileCameraHeight          |-> 50,
      missileCameraLookAhead       |-> 50,
      defaultFOV                   |-> 45,
      finalFOV                     |-> 75,
      cameraTransitionTimes        |-> << 5, 2, 5, 3, 8 >> ]

\* The configurations the model is run with: the defaults of AppConfig.h, an
\* immediate spawn (airplaneSpawnTime <= 0) and an airplane that despawns
\* before its missile reaches the ground.
Configs ==
    { DefaultConfig,
      [DefaultConfig EXCEPT !.airplaneSpawnTime = 0],
      [DefaultConfig EXCEPT !.airplaneLifetime = 8] }

\* an airplane whose lifetime ends at the very second its missile is due,
\* spawned later or at once
DropConfigs ==
    { [DefaultConfig EXCEPT !.airplaneLifetime = 6],
      [DefaultConfig EXCEPT !.airplaneLifetime = 6, !.airplaneSpawnTime = 0] }

\* an airplane that spawns at once and despawns after its missile has
\* exploded, before the scripted camera path ends
EarlyDespawnConfig ==
    [DefaultConfig EXCEPT !.airplaneSpawnTime = 0, !.airplaneLifetime = 12]

\* the default configuration with other values of missileRotationSpeed
SpinConfigs ==
    { [DefaultConfig EXCEPT !.missileRotationSpeed = -180],
      [DefaultConfig EXCEPT !.missileRotationSpeed = 540] }

\* the default configuration with a resume transition of no duration
ZeroResumeConfig == [DefaultConfig EXCEPT !.cameraTransitionTimes = << 5, 2, 5, 3, 0 >>]

\* cameraKeyframes of AppConfig.h: position in 1/1000 unit, yaw and pitch as
\* the float32 value of the literal in units of 2^-18 degree
cameraKeyframes ==
    [ i \in 0..5 |->
        CASE i = 0 -> [position |-> << 40300, 1731300, 6482700 >>, yaw |-> -23959962, pitch |-> -6710886]
          [] i = 1 -> [position |-> << -189200, 155600, 5171600 >>, yaw |-> -24379392, pitch |-> 681574]
          [] i = 2 -> [position |-> << -241200, 142700, 3635200 >>, yaw |-> -31771852, pitch |-> 1441792]
          [] i = 3 -> [position |-> << -106800, 148500, 2867000 >>, yaw |-> -11586765, pitch |-> 1127219]
          [] i = 4 -> [position |-> << 37300, 78000, 1148300 >>, yaw |-> -26371686, pitch |-> 3774874]
          [] i = 5 -> [position |-> << -13200, 152400, 398700 >>, yaw |-> -26791116, pitch |-> 8834253] ]

\* m_normalizedAirplaneDirection = normalize(airplaneDirection) = (1, 0, 0),
\* in 1/1000
NormalizedAirplaneDirection == << 1000, 0, 0 >>

\* sinf / cosf of the configured fall angle, in 1/1000000
SinDeg(a) == CASE a = 60 -> 866025 [] a = 30 -> 500000 [] a = 90 -> 1000000 [] OTHER -> 0
CosDeg(a) == CASE a = 60 -> 500000 [] a = 30 -> 866025 [] a = 0 -> 1000000 [] OTHER -> 0

----------------------------------------------------------------------------
(* Camera (src/src/Camera.cpp).  An angle is a record: kind "deg" carries  *)
(* a number; kind "lookAtYaw"/"lookAtPitch" stands for the value atan2f /  *)
(* asinf give for the direction from `from` to `to`; kind "lerp" stands    *)
(* for the interpolation that starts at such a value and ends at deg.      *)

NumAngle(n) == [kind |-> "deg", deg |-> n, from |-> Zero3, to |-> Zero3, p |-> 0, q |-> 1]
LookAtYaw(from, to) == [kind |-> "lookAtYaw", deg |-> 0, from |-> from, to |-> to, p |-> 0, q |-> 1]
LookAtPitch(from, to) == [kind |-> "lookAtPitch", deg |-> 0, from |-> from, to |-> to, p |-> 0, q |-> 1]
LerpAngle(start, goal, p, q) == [start EXCEPT !.kind = "lerp", !.deg = goal, !.p = p, !.q = q]

\* whether asinf(dir.y) of the direction from `from` to `to` lies within
\* [-89, 89] degrees: dy^2 <= tan^2(89) * (dx^2 + dz^2), in whole units
LookAtPitchWithin89(from, to) ==
    LET dx == (to[1] - from[1]) \div 1000
        dy == (to[2] - from[2]) \div 1000
        dz == (to[3] - from[3]) \div 1000
    IN  (dy * dy) \div 3282 <= dx * dx + dz * dz

\* glm::clamp(pitch, -89, 89)
ClampPitch(pitch) ==
    IF pitch.kind = "deg" THEN NumAngle(Clamp(pitch.deg, Deg(-89), Deg(89)))
    ELSE IF pitch.kind = "lookAtPitch" THEN
        IF LookAtPitchWithin89(pitch.from, pitch.to) THEN pitch
        ELSE IF pitch.to[2] >= pitch.from[2] THEN NumAngle(Deg(89)) ELSE NumAngle(Deg(-89))
    ELSE pitch

CameraInit == [position |-> << 0, 500000, 500000 >>, yaw |-> NumAngle(Deg(-135)),
               pitch |-> NumAngle(Deg(-20)), fov |-> 45000]

setPosition(cam, position) == [cam EXCEPT !.position = position]

lookAt(cam, target) ==
    [cam EXCEPT !.pitch = LookAtPitch(cam.position, target),
                !.yaw = LookAtYaw(cam.position, target)]

setRotation(cam, yaw, pitch) == [cam EXCEPT !.yaw = yaw, !.pitch = ClampPitch(pitch)]

setFOV(cam, fov) == [cam EXCEPT !.fov = Clamp(fov, 10000, 120000)]

----------------------------------------------------------------------------
(* App::updateCameraMotion                                                 *)

RECURSIVE SumTransitionTimes(_, _)
SumTransitionTimes(cfg, i) ==
    IF i = 0 THEN 0
    ELSE SumTransitionTimes(cfg, i - 1) + Seconds(cfg.cameraTransitionTimes[i])

\* keyframeTimes[0..5], cumulative
KeyframeTimes(cfg) == [i \in 0..5 |-> SumTransitionTimes(cfg, i)]

\* the loop that finds currentSegment
RECURSIVE SegmentLoop(_, _, _, _)
SegmentLoop(kt, t, i, cur) ==
    IF i = 4 THEN cur
    ELSE IF t >= kt[i] /\ t <= kt[i + 1] THEN i
    ELSE IF t > kt[i + 1] THEN SegmentLoop(kt, t, i + 1, i + 1)
    ELSE SegmentLoop(kt, t, i + 1, cur)

CurrentSegment(kt, t) == SegmentLoop(kt, t, 0, 0)

\* t = clamp((now - start) / duration, 0, 1) as the fraction a / b
LocalT(now, start, duration) ==
    IF duration > 0 THEN [a |-> Clamp(now - start, 0, duration), b |-> duration]
    ELSE [a |-> 0, b |-> 1]

\* smoothT = t * t * (3 - 2 t) as the fraction p / q
SmoothStep(t) == [p |-> t.a * t.a * (3 * t.b - 2 * t.a), q |-> t.b * t.b * t.b]

Mix_Swapped(x, y, s) == MulDiv(y, s.q - s.p, s.q) + MulDiv(x, s.p, s.q)

\* glm::mix(x, y, a) = x * (1 - a) + y * a
Mix(x, y, s) == MulDiv(x, s.q - s.p, s.q) + MulDiv(y, s.p, s.q)
Mix3(x, y, s) == << Mix(x[1], y[1], s), Mix(x[2], y[2], s), Mix(x[3], y[3], s) >>
MixF32(x, y, s) == F32(F32(MulDiv(x, s.q - s.p, s.q)) + F32(MulDiv(y, s.p, s.q)))

\* while (yaw > 180) yaw -= 360; while (yaw < -180) yaw += 360;
RECURSIVE NormalizeYaw(_)
NormalizeYaw(yaw) ==
    IF yaw > Deg(180) THEN NormalizeYaw(F32(yaw - Deg(360)))
    ELSE IF yaw < Deg(-180) THEN NormalizeYaw(F32(yaw + Deg(360)))
    ELSE yaw

ScriptedYawDiff_Unfolded(yaw0, yaw1) == F32(NormalizeYaw(yaw1) - NormalizeYaw(yaw0))

\* scripted segments: yawDiff = yaw1 - yaw0, folded onto the short way round
ScriptedYawDiff(yaw0, yaw1) ==
    LET yawDiff == F32(NormalizeYaw(yaw1) - NormalizeYaw(yaw0))
    IN  IF yawDiff > Deg(180) THEN F32(yawDiff - Deg(360))
        ELSE IF yawDiff < Deg(-180) THEN F32(yawDiff + Deg(360))
        ELSE yawDiff

\* interpolatedYaw = yaw0 + yawDiff * static_cast<float>(smoothT)
ScriptedYaw(yaw0, yaw1, s) ==
    F32(NormalizeYaw(yaw0) + F32(MulDiv(ScriptedYawDiff(yaw0, yaw1), s.p, s.q)))

\* Phase 1: the pose of the scripted segments at total time `now`
ScriptedPose(cfg, now) ==
    LET kt == KeyframeTimes(cfg)
        currentSegment == CurrentSegment(kt, now)
        keyframe0 == cameraKeyframes[currentSegment]
        keyframe1 == cameraKeyframes[currentSegment + 1]
        t == LocalT(now, kt[currentSegment], kt[currentSegment + 1] - kt[currentSegment])
        smoothT == SmoothStep(t)
    IN  [ segment  |-> currentSegment,
          t        |-> t,
          position |-> Mix3(keyframe0.position, keyframe1.position, smoothT),
          yaw      |-> NumAngle(ScriptedYaw(keyframe0.yaw, keyframe1.yaw, smoothT)),
          pitch    |-> NumAngle(MixF32(keyframe0.pitch, keyframe1.pitch, smoothT)) ]

\* resume transition: the same folding, from the recorded yaw to keyframe 5
ResumeYawDiff(yawStart, yaw5) ==
    LET yawDiff == F32(NormalizeYaw(yaw5) - NormalizeYaw(yawStart))
    IN  IF yawDiff > Deg(180) THEN F32(yawDiff - Deg(360))
        ELSE IF yawDiff < Deg(-180) THEN F32(yawDiff + Deg(360))
        ELSE yawDiff

ResumeYaw(yawStart, yaw5, s) ==
    IF yawStart.kind = "deg" THEN
        NumAngle(F32(NormalizeYaw(yawStart.deg) + F32(MulDiv(ResumeYawDiff(yawStart.deg, yaw5), s.p, s.q))))
    ELSE IF s.p = 0 THEN yawStart
    ELSE LerpAngle(yawStart, yaw5, s.p, s.q)

ResumePitch(pitchStart, pitch5, s) ==
    IF pitchStart.kind = "deg" THEN NumAngle(MixF32(pitchStart.deg, pitch5, s))
    ELSE IF s.p = 0 THEN pitchStart
    ELSE LerpAngle(pitchStart, pitch5, s.p, s.q)

KeyframePose(cam, kf, fov) ==
    setFOV(setRotation(setPosition(cam, kf.position), NumAngle(kf.yaw), NumAngle(kf.pitch)), fov)

\* timeSinceAirplaneDisappear < 0.001
FirstFrameAfterDisappear(now, disappearTime) ==
    (now - disappearTime) * 1000 < TicksPerSecond

CameraPhase_TimedFallback(cfg, now, exploded, resuming) ==
    IF ~cfg.enableCameraMotion THEN "disabled"
    ELSE IF now < KeyframeTimes(cfg)[4] THEN "scripted"
    ELSE IF ~exploded THEN "hold"
    ELSE IF ~resuming THEN "gaze"
    ELSE IF now < KeyframeTimes(cfg)[5] THEN "resume"
    ELSE "fallback"

CameraPhase_HoldAfterDespawn(cfg, now, exploded, resuming) ==
    IF ~cfg.enableCameraMotion THEN "disabled"
    ELSE IF now < KeyframeTimes(cfg)[4] THEN "scripted"
    ELSE IF ~exploded \/ resuming THEN "hold"
    ELSE "gaze"

\* The phase updateCameraMotion runs in
CameraPhase(cfg, now, exploded, resuming) ==
    IF ~cfg.enableCameraMotion THEN "disabled"
    ELSE IF now < KeyframeTimes(cfg)[4] THEN "scripted"
    ELSE IF ~exploded THEN "hold"
    ELSE IF ~resuming THEN "gaze"
    ELSE IF resuming THEN "resume"
    ELSE "fallback"

\* Phase 2 leaves the camera to the trackers
YieldsToTracking(airplaneActive, missileActive) == airplaneActive \/ missileActive

\* The camera after updateCameraMotion and whether it was written
CameraMotion(cfg, cam, now, phase) ==
    LET defaultFOV == cfg.defaultFOV * 1000
        finalFOV == cfg.finalFOV * 1000
        keyframe4 == cameraKeyframes[4]
        keyframe5 == cameraKeyframes[5]
    IN  CASE phase = "disabled" -> [camera |-> cam, wrote |-> FALSE]
          [] phase = "scripted" ->
                LET pose == ScriptedPose(cfg, now)
                IN  [camera |-> setFOV(setRotation(setPosition(cam, pose.position), pose.yaw, pose.pitch), defaultFOV),
                     wrote |-> TRUE]
          [] phase = "hold" ->
                IF m_reachedKeyframe3 /\ YieldsToTracking(m_airplaneActive, m_missileActive)
                THEN [camera |-> cam, wrote |-> FALSE]
                ELSE [camera |-> KeyframePose(cam, keyframe4, defaultFOV), wrote |-> TRUE]
          [] phase = "gaze" ->
                [camera |-> setFOV(lookAt(setPosition(cam, keyframe4.position), m_missileExplosionPosition), defaultFOV),
                 wrote |-> TRUE]
          [] phase = "resume" ->
                LET snap == m_cameraWhenAirplaneDisappeared
                    t == LocalT(now, m_airplaneDisappearTime, Seconds(cfg.cameraTransitionTimes[5]))
                    smoothT == SmoothStep(t)
                IN  IF FirstFrameAfterDisappear(now, m_airplaneDisappearTime)
                    THEN [camera |-> setFOV(setRotation(setPosition(cam, snap.position), snap.yaw, snap.pitch), defaultFOV),
                          wrote |-> TRUE]
                    ELSE IF t.a >= t.b
                    THEN [camera |-> KeyframePose(cam, keyframe5, finalFOV), wrote |-> TRUE]
                    ELSE [camera |-> setFOV(setRotation(setPosition(cam, Mix3(snap.position, keyframe5.position, smoothT)),
                                                        ResumeYaw(snap.yaw, keyframe5.yaw, smoothT),
                                                        ResumePitch(snap.pitch, keyframe5.pitch, smoothT)),
                                            Mix(defaultFOV, finalFOV, smoothT)),
                          wrote |-> TRUE]
          [] OTHER -> [camera |-> KeyframePose(cam, keyframe5, finalFOV), wrote |-> TRUE]

----------------------------------------------------------------------------
(* The frame loop of App::run: tick, updateCameraMotion,                   *)
(* updateAirplaneAnimation, updateMissileAnimation.                        *)

WingmanNames == { "wingman_left1", "wingman_left2", "wingman_right1", "wingman_right2" }

\* the offsets of the four wingmen of AppConfig.h, (right, up, forward)
WingmanOffsets ==
    [ n \in WingmanNames |->
        CASE n = "wingman_left1" -> << -600, 0, -600 >>
          [] n = "wingman_left2" -> << -1200, 0, -1200 >>
          [] n = "wingman_right1" -> << 600, 0, -600 >>
          [] n = "wingman_right2" -> << 1200, 0, -1200 >> ]

\* glm::cross of two vectors in 1/1000
Cross(a, b) ==
    << (a[2] * b[3] - a[3] * b[2]) \div 1000,
       (a[3] * b[1] - a[1] * b[3]) \div 1000,
       (a[1] * b[2] - a[2] * b[1]) \div 1000 >>

\* right = normalize(cross(direction, (0, 1, 0))): a unit vector already
FormationRight == Cross(NormalizedAirplaneDirection, << 0, 1000, 0 >>)

\* m_airplanePosition + right * offset.x + up * offset.y + forward * offset.z
WingmanPositionAt(airplanePosition, n) ==
    VecAdd(airplanePosition,
           VecAdd(VecMulDiv(FormationRight, WingmanOffsets[n][1], 1),
                  VecAdd(VecMulDiv(<< 0, 1000, 0 >>, WingmanOffsets[n][2], 1),
                         VecMulDiv(NormalizedAirplaneDirection, WingmanOffsets[n][3], 1))))

\* applyScale(glm::mat4(1.0f), glm::vec3(0.0f))
ZeroScaled == [scale |-> "zero", position |-> Zero3]

\* the transforms of the scene App hands to the renderer: the airplane and
\* the wingmen are hidden if the airplane spawns later, the missile always
SceneTransforms(cfg) ==
    [ n \in { "airplane", "missile" } \cup WingmanNames |->
        IF n = "missile" THEN ZeroScaled
        ELSE IF cfg.airplaneSpawnTime > 0 THEN ZeroScaled
        ELSE IF n = "airplane"
        THEN [scale |-> "airplaneScale",
              position |-> VecMulDiv(VecAdd(cfg.airplaneStartPosition, << 0, cfg.airplaneHeight, 0 >>), 1000, 1)]
        ELSE [scale |-> "identity", position |-> Zero3] ]

HideMeshes_NotTheWingmen(transforms, names) ==
    [ n \in DOMAIN transforms |->
        IF n \in names \ WingmanNames THEN ZeroScaled ELSE transforms[n] ]

\* setMeshTransformByName(name, destroyTransform) for each of the names
HideMeshes(transforms, names) ==
    [ n \in DOMAIN transforms |-> IF n \in names THEN ZeroScaled ELSE transforms[n] ]

\* setMeshTransformByName("missile", transform)
PlaceMesh(transforms, name, position) ==
    [transforms EXCEPT ![name] = [scale |-> "missileScale", position |-> position]]

\* the airplane and the four wingmen placed for the frame
PlaceFormation(transforms, airplanePosition) ==
    [ n \in DOMAIN transforms |->
        IF n = "airplane" THEN [scale |-> "airplaneScale", position |-> airplanePosition]
        ELSE IF n \in WingmanNames
        THEN [scale |-> "wingmanScale", position |-> WingmanPositionAt(airplanePosition, n)]
        ELSE transforms[n] ]

FrameLogInit ==
    [ writers |-> << >>, phase |-> "none", entryReached |-> FALSE,
      entryAirplaneActive |-> FALSE, entryMissileActive |-> FALSE,
      airplaneSpawned |-> FALSE, airplaneDespawned |-> FALSE,
      missileDropped |-> FALSE, missileIntegrated |-> FALSE,
      missileYBefore |-> 0, missileExplodedNow |-> FALSE ]

RunLogInit ==
    [ frames |-> 0, prevTime |-> 0, activations |-> 0, activationFirstDue |-> TRUE,
      despawns |-> 0, explosions |-> 0, explosionY |-> 0, explosionTime |-> 0,
      sinceDespawn |-> 0 ]

\* the members as preloadResources leaves them
FrameStart ==
    /\ pc = "tick"
    /\ deltaSeconds = 0
    /\ m_totalTime = 0
    /\ m_camera = setFOV(CameraInit, m_config.defaultFOV * 1000)
    /\ m_reachedKeyframe3 = FALSE
    /\ m_missileExploded = FALSE
    /\ m_missileExplosionTime = 0
    /\ m_missileExplosionPosition = Zero3
    /\ m_resumingToKeyframe4 = FALSE
    /\ m_airplaneDisappearTime = 0
    /\ m_cameraWhenAirplaneDisappeared = [position |-> Zero3, yaw |-> NumAngle(0), pitch |-> NumAngle(0)]
    /\ m_airplaneActive = (m_config.airplaneSpawnTime <= 0)
    /\ m_airplaneSpawnTime = 0
    /\ m_airplaneHasSpawned = FALSE
    /\ m_airplanePosition = VecMulDiv(VecAdd(m_config.airplaneStartPosition, << 0, m_config.airplaneHeight, 0 >>), 1000, 1)
    /\ m_missileActive = FALSE
    /\ m_missileHasSpawned = FALSE
    /\ m_missileSpawnTime = 0
    /\ m_missilePosition = Zero3
    /\ m_missileVelocity = Zero3
    /\ m_missileRotationAngle = 0
    /\ m_wingmanPosition = [ n \in WingmanNames |-> Zero3 ]
    /\ meshTransform = SceneTransforms(m_config)
    /\ frameLog = FrameLogInit
    /\ runLog = RunLogInit

FrameInit ==
    /\ m_config \in Configs
    /\ FrameStart

\* deltaSeconds = m_timer.tick(); m_totalTime += deltaSeconds;
Tick ==
    /\ pc = "tick"
    /\ UNCHANGED notFrameVars
    /\ \E dt \in 0..MaxDeltaTicks :
        /\ m_totalTime + dt <= MaxTime
        /\ deltaSeconds' = dt
        /\ m_totalTime' = m_totalTime + dt
    /\ pc' = "camera"
    /\ frameLog' = FrameLogInit
    /\ runLog' = [runLog EXCEPT !.frames = Min2(@ + 1, 2), !.prevTime = m_totalTime,
                                !.sinceDespawn = IF @ = 0 THEN 0 ELSE Min2(@ + 1, 3)]
    /\ UNCHANGED << m_config, m_camera, m_reachedKeyframe3, m_missileExploded,
                    m_missileExplosionTime, m_missileExplosionPosition,
                    m_resumingToKeyframe4, m_airplaneDisappearTime,
                    m_cameraWhenAirplaneDisappeared, m_airplaneActive,
                    m_airplaneSpawnTime, m_airplaneHasSpawned, m_airplanePosition,
                    m_missileActive, m_missileHasSpawned, m_missileSpawnTime,
                    m_missilePosition, m_missileVelocity, m_missileRotationAngle,
                    m_wingmanPosition, meshTransform >>

ReachedKeyframe3_Unlatched(reached, phase) == phase = "hold"

\* if (!m_reachedKeyframe3) { ... m_reachedKeyframe3 = true; } in Phase 2
ReachedKeyframe3(reached, phase) == reached \/ phase = "hold"

UpdateCameraMotion ==
    /\ pc = "camera"
    /\ UNCHANGED notFrameVars
    /\ LET phase == CameraPhase(m_config, m_totalTime, m_missileExploded, m_resumingToKeyframe4)
           r == CameraMotion(m_config, m_camera, m_totalTime, phase)
       IN  /\ m_camera' = r.camera
           /\ m_reachedKeyframe3' = ReachedKeyframe3(m_reachedKeyframe3, phase)
           /\ frameLog' = [frameLog EXCEPT
                              !.phase = phase,
                              !.entryReached = m_reachedKeyframe3,
                              !.entryAirplaneActive = m_airplaneActive,
                              !.entryMissileActive = m_missileActive,
                              !.writers = IF r.wrote THEN Append(@, "scripted") ELSE @]
    /\ pc' = "airplane"
    /\ UNCHANGED << m_config, deltaSeconds, m_totalTime, m_missileExploded,
                    m_missileExplosionTime, m_missileExplosionPosition,
                    m_resumingToKeyframe4, m_airplaneDisappearTime,
                    m_cameraWhenAirplaneDisappeared, m_airplaneActive,
                    m_airplaneSpawnTime, m_airplaneHasSpawned, m_airplanePosition,
                    m_missileActive, m_missileHasSpawned, m_missileSpawnTime,
                    m_missilePosition, m_missileVelocity, m_missileRotationAngle,
                    m_wingmanPosition, meshTransform, runLog >>

AirplaneSpawnDue_Early(cfg, now, hasSpawned) ==
    ~hasSpawned

AirplaneSpawnDue_Strict(cfg, now, hasSpawned) ==
    ~hasSpawned /\ now > Seconds(cfg.airplaneSpawnTime)

\* !m_airplaneHasSpawned && m_totalTime >= airplaneSpawnTime
AirplaneSpawnDue(cfg, now, hasSpawned) ==
    ~hasSpawned /\ now >= Seconds(cfg.airplaneSpawnTime)

\* airplaneLifetime > 0 && elapsedSinceSpawn > airplaneLifetime
AirplaneLifetimeExpired(cfg, now, spawnTime) ==
    cfg.airplaneLifetime > 0 /\ now - spawnTime > Seconds(cfg.airplaneLifetime)

AirplanePositionAt_Incremental(cfg, timeSinceSpawn) ==
    VecAdd(m_airplanePosition,
           VecMulDiv(VecMulDiv(NormalizedAirplaneDirection, cfg.airplaneSpeed, 1), deltaSeconds, TicksPerSecond))

\* basePosition + (0, height, 0) + timeSinceSpawn * speed * direction
AirplanePositionAt(cfg, timeSinceSpawn) ==
    VecAdd(VecMulDiv(VecAdd(cfg.airplaneStartPosition, << 0, cfg.airplaneHeight, 0 >>), 1000, 1),
           VecMulDiv(VecMulDiv(NormalizedAirplaneDirection, cfg.airplaneSpeed, 1), timeSinceSpawn, TicksPerSecond))

AirplaneTracksCamera_IgnoresExplosion(cfg, airplaneActive, missileActive, exploded) ==
    cfg.enableAirplaneCameraTracking /\ airplaneActive /\ ~missileActive

\* enableAirplaneCameraTracking && m_airplaneActive && !m_missileActive && !m_missileExploded
AirplaneTracksCamera(cfg, airplaneActive, missileActive, exploded) ==
    cfg.enableAirplaneCameraTracking /\ airplaneActive /\ ~missileActive /\ ~exploded

AirplaneTrackingCamera(cfg, cam, airplanePosition) ==
    LET backward == VecSub(Zero3, NormalizedAirplaneDirection)
        cameraPos == VecAdd(VecAdd(airplanePosition, VecMulDiv(backward, cfg.airplaneCameraDistance, 1)),
                            << 0, cfg.airplaneCameraHeight * 1000, 0 >>)
    IN  lookAt(IF cfg.airplaneCameraFollowPosition THEN setPosition(cam, cameraPos) ELSE cam,
               airplanePosition)

ResumeOnDespawn_Always(resuming, exploded) == TRUE

\* if (m_missileExploded) m_resumingToKeyframe4 = true;
ResumeOnDespawn(resuming, exploded) == resuming \/ exploded

UpdateAirplaneAnimation ==
    /\ pc = "airplane"
    /\ UNCHANGED notFrameVars
    /\ pc' = "missile"
    /\ LET spawnNow == AirplaneSpawnDue(m_config, m_totalTime, m_airplaneHasSpawned)
           active1 == IF spawnNow THEN TRUE ELSE m_airplaneActive
           spawnTime1 == IF spawnNow THEN m_totalTime ELSE m_airplaneSpawnTime
           flipped == spawnNow /\ ~m_airplaneActive
           log1 == [runLog EXCEPT
                       !.activations = IF flipped THEN @ + 1 ELSE @,
                       !.activationFirstDue =
                           IF flipped
                           THEN @ /\ (runLog.frames = 1 \/ runLog.prevTime < Seconds(m_config.airplaneSpawnTime))
                           ELSE @]
       IN  /\ m_airplaneHasSpawned' = (m_airplaneHasSpawned \/ spawnNow)
           /\ m_airplaneSpawnTime' = spawnTime1
           /\ IF ~active1 THEN
                  /\ m_airplaneActive' = active1
                  /\ runLog' = log1
                  /\ frameLog' = frameLog
                  /\ UNCHANGED << m_airplaneDisappearTime, m_cameraWhenAirplaneDisappeared,
                                  m_resumingToKeyframe4, m_airplanePosition, m_camera,
                                  m_wingmanPosition, meshTransform >>
              ELSE IF AirplaneLifetimeExpired(m_config, m_totalTime, spawnTime1) THEN
                  /\ m_airplaneActive' = FALSE
                  /\ runLog' = [log1 EXCEPT !.despawns = @ + 1, !.sinceDespawn = 1]
                  /\ m_airplaneDisappearTime' = m_totalTime
                  /\ m_cameraWhenAirplaneDisappeared' =
                        [position |-> m_camera.position, yaw |-> m_camera.yaw, pitch |-> m_camera.pitch]
                  /\ m_resumingToKeyframe4' = ResumeOnDespawn(m_resumingToKeyframe4, m_missileExploded)
                  /\ m_camera' = IF m_config.enableAirplaneCameraTracking /\ ~m_config.enableCameraMotion
                                 THEN lookAt(setPosition(m_camera, << 0, 1500000, 1500000 >>), Zero3)
                                 ELSE m_camera
                  /\ frameLog' = [frameLog EXCEPT
                                     !.airplaneSpawned = spawnNow,
                                     !.airplaneDespawned = TRUE,
                                     !.writers = IF m_config.enableAirplaneCameraTracking /\ ~m_config.enableCameraMotion
                                                 THEN Append(@, "airplaneReset") ELSE @]
                  /\ meshTransform' = HideMeshes(meshTransform, { "airplane" } \cup WingmanNames)
                  /\ UNCHANGED << m_airplanePosition, m_wingmanPosition >>
              ELSE
                  LET position == AirplanePositionAt(m_config, m_totalTime - spawnTime1)
                      tracks == AirplaneTracksCamera(m_config, active1, m_missileActive, m_missileExploded)
                  IN  /\ m_airplaneActive' = active1
                      /\ runLog' = log1
                      /\ m_airplanePosition' = position
                      /\ m_wingmanPosition' = [ n \in WingmanNames |-> WingmanPositionAt(position, n) ]
                      /\ meshTransform' = PlaceFormation(meshTransform, position)
                      /\ m_camera' = IF tracks THEN AirplaneTrackingCamera(m_config, m_camera, position)
                                     ELSE m_camera
                      /\ frameLog' = [frameLog EXCEPT
                                         !.airplaneSpawned = spawnNow,
                                         !.writers = IF tracks THEN Append(@, "airplane") ELSE @]
                      /\ UNCHANGED << m_airplaneDisappearTime, m_cameraWhenAirplaneDisappeared,
                                      m_resumingToKeyframe4 >>
    /\ UNCHANGED << m_config, deltaSeconds, m_totalTime, m_reachedKeyframe3,
                    m_missileExploded, m_missileExplosionTime, m_missileExplosionPosition,
                    m_missileActive, m_missileHasSpawned, m_missileSpawnTime,
                    m_missilePosition, m_missileVelocity, m_missileRotationAngle >>

----------------------------------------------------------------------------
(* App::updateMissileAnimation                                             *)

MissileDropDue_IgnoresAirplane(cfg, now) ==
    /\ ~m_missileHasSpawned
    /\ now - m_airplaneSpawnTime >= Seconds(cfg.missileDropTime)

MissileDropDue_Strict(cfg, now) ==
    /\ ~m_missileHasSpawned
    /\ m_airplaneHasSpawned
    /\ m_airplaneActive
    /\ now - m_airplaneSpawnTime > Seconds(cfg.missileDropTime)

MissileDropDue_NoLatch(cfg, now) ==
    /\ m_airplaneHasSpawned
    /\ m_airplaneActive
    /\ ~m_missileActive
    /\ now - m_airplaneSpawnTime >= Seconds(cfg.missileDropTime)

\* !m_missileHasSpawned && m_airplaneHasSpawned && m_airplaneActive &&
\* timeSinceAirplaneSpawn >= missileDropTime
MissileDropDue(cfg, now) ==
    /\ ~m_missileHasSpawned
    /\ m_airplaneHasSpawned
    /\ m_airplaneActive
    /\ now - m_airplaneSpawnTime >= Seconds(cfg.missileDropTime)

\* horizontalSpeed = missileFallSpeed * cosf(fallAngleRad), in 1/1000 per second
HorizontalSpeed(cfg) == MulDiv(cfg.missileFallSpeed, CosDeg(cfg.missileFallAngle), 1000)

VerticalSpeed_Upward(cfg) == MulDiv(cfg.missileFallSpeed, SinDeg(cfg.missileFallAngle), 1000)

\* verticalSpeed = -missileFallSpeed * sinf(fallAngleRad), in 1/1000 per second
VerticalSpeed(cfg) == -MulDiv(cfg.missileFallSpeed, SinDeg(cfg.missileFallAngle), 1000)

\* m_missileVelocity = direction * horizontalSpeed + (0, verticalSpeed, 0)
DropVelocity(cfg) ==
    VecAdd(VecMulDiv(NormalizedAirplaneDirection, HorizontalSpeed(cfg), 1000),
           << 0, VerticalSpeed(cfg), 0 >>)

IntegrateMissile_Frozen(position, velocity, dt) == position

\* m_missilePosition += m_missileVelocity * deltaSeconds
IntegrateMissile(position, velocity, dt) ==
    VecAdd(position, VecMulDiv(velocity, dt, TicksPerSecond))

\* m_missilePosition.y <= groundHeight
HitsGround(cfg, position) == position[2] <= cfg.groundHeight * 1000

\* while (angle >= 360) angle -= 360, in 1/1000 degree
RECURSIVE WrapAngle(_)
WrapAngle(angle) == IF angle >= 360000 THEN WrapAngle(angle - 360000) ELSE angle

\* m_missileRotationAngle += missileRotationSpeed * deltaSeconds, then the wrap
SpinAngle(cfg, angle, dt) ==
    WrapAngle(angle + MulDiv(cfg.missileRotationSpeed * 1000, dt, TicksPerSecond))

\* timeSinceMissileDrop >= missileCameraTrackDelay
MissileTrackDelayPassed(cfg, now, spawnTime) ==
    now - spawnTime >= Seconds(cfg.missileCameraTrackDelay)

\* the camera behind the missile, looking ahead along its velocity
MissileTrackingCamera(cfg, cam, position, velocity) ==
    LET forwardDir == VecMulDiv(velocity, 1, cfg.missileFallSpeed)
        cameraPos == VecAdd(VecSub(position, VecMulDiv(forwardDir, cfg.missileCameraDistance, 1)),
                            << 0, cfg.missileCameraHeight * 1000, 0 >>)
        lookTarget == VecAdd(position, VecMulDiv(forwardDir, cfg.missileCameraLookAhead, 1))
    IN  lookAt(setPosition(cam, cameraPos), lookTarget)

ImpactCamera_KeepsPosition(cam, explosionPosition) == lookAt(cam, explosionPosition)

\* the hard cut of the impact frame
ImpactCamera(cam, explosionPosition) ==
    lookAt(setPosition(cam, cameraKeyframes[4].position), explosionPosition)

UpdateMissileAnimation ==
    /\ pc = "missile"
    /\ UNCHANGED notFrameVars
    /\ pc' = "tick"
    /\ LET dropNow == MissileDropDue(m_config, m_totalTime)
           active1 == m_missileActive \/ dropNow
           spawnTime1 == IF dropNow THEN m_totalTime ELSE m_missileSpawnTime
           position1 == IF dropNow THEN m_airplanePosition ELSE m_missilePosition
           velocity1 == IF dropNow THEN DropVelocity(m_config) ELSE m_missileVelocity
           angle1 == IF dropNow THEN 0 ELSE m_missileRotationAngle
           position2 == IntegrateMissile(position1, velocity1, deltaSeconds)
           explosionPosition == << position2[1], m_config.groundHeight * 1000, position2[3] >>
       IN  /\ m_missileHasSpawned' = (m_missileHasSpawned \/ dropNow)
           /\ m_missileSpawnTime' = spawnTime1
           /\ m_missileVelocity' = velocity1
           /\ IF ~active1 THEN
                  /\ m_missileActive' = FALSE
                  /\ m_missilePosition' = position1
                  /\ m_missileRotationAngle' = angle1
                  /\ frameLog' = frameLog
                  /\ UNCHANGED << m_missileExploded, m_missileExplosionTime,
                                  m_missileExplosionPosition, m_camera, runLog, meshTransform >>
              ELSE IF HitsGround(m_config, position2) THEN
                  /\ m_missileActive' = FALSE
                  /\ m_missilePosition' = position2
                  /\ m_missileRotationAngle' = SpinAngle(m_config, angle1, deltaSeconds)
                  /\ m_missileExploded' = TRUE
                  /\ m_missileExplosionTime' = m_totalTime
                  /\ m_missileExplosionPosition' = explosionPosition
                  /\ m_camera' = ImpactCamera(m_camera, explosionPosition)
                  /\ meshTransform' = HideMeshes(meshTransform, { "missile" })
                  /\ runLog' = [runLog EXCEPT !.explosions = @ + 1,
                                              !.explosionY = position2[2],
                                              !.explosionTime = m_totalTime]
                  /\ frameLog' = [frameLog EXCEPT
                                     !.missileDropped = dropNow,
                                     !.missileIntegrated = TRUE,
                                     !.missileYBefore = position1[2],
                                     !.missileExplodedNow = TRUE,
                                     !.writers = Append(@, "missile")]
              ELSE
                  LET tracks == MissileTrackDelayPassed(m_config, m_totalTime, spawnTime1)
                  IN  /\ m_missileActive' = TRUE
                      /\ m_missilePosition' = position2
                      /\ m_missileRotationAngle' = SpinAngle(m_config, angle1, deltaSeconds)
                      /\ meshTransform' = PlaceMesh(meshTransform, "missile", position2)
                      /\ m_camera' = IF tracks
                                     THEN MissileTrackingCamera(m_config, m_camera, position2, velocity1)
                                     ELSE m_camera
                      /\ frameLog' = [frameLog EXCEPT
                                         !.missileDropped = dropNow,
                                         !.missileIntegrated = TRUE,
                                         !.missileYBefore = position1[2],
                                         !.writers = IF tracks THEN Append(@, "missile") ELSE @]
                      /\ UNCHANGED << m_missileExploded, m_missileExplosionTime,
                                      m_missileExplosionPosition, runLog >>
    /\ UNCHANGED << m_config, deltaSeconds, m_totalTime, m_reachedKeyframe3,
                    m_resumingToKeyframe4, m_airplaneDisappearTime,
                    m_cameraWhenAirplaneDisappeared, m_airplaneActive,
                    m_airplaneSpawnTime, m_airplaneHasSpawned, m_airplanePosition,
                    m_wingmanPosition >>

\* The frame loop stopped before its first frame (other specifications)
FrameIdle ==
    /\ m_config = DefaultConfig
    /\ pc = "idle"
    /\ deltaSeconds = 0
    /\ m_totalTime = 0
    /\ m_camera = CameraInit
    /\ m_reachedKeyframe3 = FALSE
    /\ m_missileExploded = FALSE
    /\ m_missileExplosionTime = 0
    /\ m_missileExplosionPosition = Zero3
    /\ m_resumingToKeyframe4 = FALSE
    /\ m_airplaneDisappearTime = 0
    /\ m_cameraWhenAirplaneDisappeared = [position |-> Zero3, yaw |-> NumAngle(0), pitch |-> NumAngle(0)]
    /\ m_airplaneActive = FALSE
    /\ m_airplaneSpawnTime = 0
    /\ m_airplaneHasSpawned = FALSE
    /\ m_airplanePosition = Zero3
    /\ m_missileActive = FALSE
    /\ m_missileHasSpawned = FALSE
    /\ m_missileSpawnTime = 0
    /\ m_missilePosition = Zero3
    /\ m_missileVelocity = Zero3
    /\ m_missileRotationAngle = 0
    /\ m_wingmanPosition = [ n \in WingmanNames |-> Zero3 ]
    /\ meshTransform = SceneTransforms(DefaultConfig)
    /\ frameLog = FrameLogInit
    /\ runLog = RunLogInit

----------------------------------------------------------------------------
(* App::updateFlagAnimation and the std::async job it launches             *)

FlagLogInit ==
    [polled |-> FALSE, ready |-> FALSE, applied |-> FALSE, launched |-> FALSE,
     uncollected |-> 0, waited |-> FALSE]

\* the loop of App::run is running
FlagRunInit == [exited |-> FALSE, discarded |-> 0]

FlagInit ==
    /\ m_flagExists \in BOOLEAN
    /\ m_flagAnimationTime = 0
    /\ m_flagUpdatePending = FALSE
    /\ m_flagUpdateFuture = 0
    /\ flagJobs = << >>
    /\ flagMesh = 0
    /\ flagLog = FlagLogInit
    /\ flagRun = FlagRunInit

FlagIdle ==
    /\ m_flagExists = FALSE
    /\ m_flagAnimationTime = 0
    /\ m_flagUpdatePending = FALSE
    /\ m_flagUpdateFuture = 0
    /\ flagJobs = << >>
    /\ flagMesh = 0
    /\ flagLog = FlagLogInit
    /\ flagRun = FlagRunInit

FutureReady_Always(jobs, future) == future /= 0

\* m_flagUpdateFuture.wait_for(0 ms) == future_status::ready
FutureReady(jobs, future) == future /= 0 /\ jobs[future].done

\* m_flagUpdateFuture.get() returns at once only if the job has finished;
\* otherwise the calling thread waits for it
GetWaits(jobs, future) == future /= 0 /\ ~jobs[future].done

\* m_flagUpdateFuture = std::async(...): move assignment over a future that
\* still owns a std::async job waits until that job has finished
AssignWaits(jobs, future) == future /= 0 /\ ~jobs[future].done

LaunchAllowed_Always(pending) == TRUE

\* if (!m_flagUpdatePending) { ... std::async ... }
LaunchAllowed(pending) == ~pending

RemoveJob_Keeps(jobs, k) == jobs

\* jobs without the one the future referred to (m_flagUpdateFuture.get())
RemoveJob(jobs, k) == [i \in 1..(Len(jobs) - 1) |-> IF i < k THEN jobs[i] ELSE jobs[i + 1]]

\* one frame: m_flagAnimationTime += deltaSeconds, poll, apply, launch
UpdateFlagAnimation ==
    /\ ~flagRun.exited
    /\ m_flagExists
    /\ \E dt \in 0..MaxDeltaTicks :
        LET time1 == m_flagAnimationTime + dt
            polled == m_flagUpdatePending
            ready == polled /\ FutureReady(flagJobs, m_flagUpdateFuture)
            getWaited == ready /\ GetWaits(flagJobs, m_flagUpdateFuture)
            jobs1 == IF ready THEN RemoveJob(flagJobs, m_flagUpdateFuture) ELSE flagJobs
            future1 == IF ready THEN 0 ELSE m_flagUpdateFuture
            pending1 == IF ready THEN FALSE ELSE m_flagUpdatePending
            launch == LaunchAllowed(pending1)
            assignWaited == launch /\ AssignWaits(jobs1, future1)
            jobs2 == IF launch /\ future1 /= 0 THEN RemoveJob(jobs1, future1) ELSE jobs1
        IN  /\ time1 <= MaxFlagTime
            /\ m_flagAnimationTime' = time1
            /\ flagMesh' = IF ready THEN flagJobs[m_flagUpdateFuture].targetTime ELSE flagMesh
            /\ flagJobs' = IF launch
                           THEN Append(jobs2, [targetTime |-> time1, started |-> FALSE, done |-> FALSE])
                           ELSE jobs2
            /\ m_flagUpdateFuture' = IF launch THEN Len(jobs2) + 1 ELSE future1
            /\ m_flagUpdatePending' = (pending1 \/ launch)
            /\ flagLog' = [polled |-> polled, ready |-> ready, applied |-> ready,
                           launched |-> launch, uncollected |-> Len(jobs1),
                           waited |-> (getWaited \/ assignWaited)]
    /\ UNCHANGED << m_flagExists, flagRun, notFlagVars >>

\* the background thread starts running the job's lambda
FlagJobStarts ==
    /\ \E k \in 1..Len(flagJobs) :
        /\ ~flagJobs[k].started
        /\ flagJobs' = [flagJobs EXCEPT ![k].started = TRUE]
    /\ UNCHANGED << m_flagExists, m_flagAnimationTime, m_flagUpdatePending,
                    m_flagUpdateFuture, flagMesh, flagLog, flagRun, notFlagVars >>

\* the background thread finishes FlagGenerator::updateFlagVertices
FlagJobCompletes ==
    /\ \E k \in 1..Len(flagJobs) :
        /\ flagJobs[k].started
        /\ ~flagJobs[k].done
        /\ flagJobs' = [flagJobs EXCEPT ![k].done = TRUE]
    /\ UNCHANGED << m_flagExists, m_flagAnimationTime, m_flagUpdatePending,
                    m_flagUpdateFuture, flagMesh, flagLog, flagRun, notFlagVars >>

\* a frame of a scene without a flag mesh: updateFlagAnimation returns at once
UpdateFlagAnimationNoFlag ==
    /\ ~flagRun.exited
    /\ ~m_flagExists
    /\ flagLog' = FlagLogInit
    /\ UNCHANGED << m_flagExists, m_flagAnimationTime, m_flagUpdatePending,
                    m_flagUpdateFuture, flagJobs, flagMesh, flagRun, notFlagVars >>

\* m_window->shouldClose() ends the loop of App::run: no later frame polls
\* m_flagUpdateFuture, and the result of a job it still owns is destroyed
\* with the future
ExitLoop ==
    /\ ~flagRun.exited
    /\ flagRun' = [exited |-> TRUE, discarded |-> Len(flagJobs)]
    /\ UNCHANGED << m_flagExists, m_flagAnimationTime, m_flagUpdatePending,
                    m_flagUpdateFuture, flagJobs, flagMesh, flagLog, notFlagVars >>

----------------------------------------------------------------------------
(* App::updateLanterns, spawnLantern, deactivateLantern                    *)
(* ages and durations in ticks, heights in 1/1000 unit, speeds in units/s, *)
(* the spawn interval in 1/10 second                                       *)

\* a pool and a schedule small enough to walk through
SmallLanternConfig ==
    [ enableLanterns         |-> TRUE,
      lanternPoolSize        |-> 2,
      lanternSpawnInterval   |-> 11,
      lanternSpawnStartTime  |-> 1,
      lanternSpawnCountRange |-> << 1, 2 >>,
      lanternMinLifetime     |-> 2,
      lanternMaxLifetime     |-> 2,
      lanternTargetHeightMin |-> 4000,
      lanternTargetHeightMax |-> 99000,
      lanternMinSpeed        |-> 100,
      lanternMaxSpeed        |-> 100 ]

LanternHeightRanges == { << 4000, 99000 >>, << 0, 99000 >>, << -500, -100 >> }

LanternConfigs ==
    { [ SmallLanternConfig EXCEPT
          !.lanternTargetHeightMin = h[1], !.lanternTargetHeightMax = h[2] ] :
        h \in LanternHeightRanges }
    \cup { [ SmallLanternConfig EXCEPT !.enableLanterns = FALSE ],
           [ SmallLanternConfig EXCEPT !.lanternPoolSize = 0 ],
           [ SmallLanternConfig EXCEPT !.lanternMinSpeed = 150, !.lanternMaxSpeed = 50 ],
           [ SmallLanternConfig EXCEPT !.lanternMinLifetime = 1, !.lanternMaxLifetime = 2 ],
           [ SmallLanternConfig EXCEPT !.lanternSpawnCountRange = << -1, 1 >> ] }

\* the band of AppConfig.h and a band for lanterns that end 100 to 200 units
\* above the ground
LowBandConfigs ==
    { SmallLanternConfig,
      [ SmallLanternConfig EXCEPT
          !.lanternTargetHeightMin = 100, !.lanternTargetHeightMax = 200 ] }

\* the outcomes of randomFloat(minValue, maxValue): the ends of the range
randomFloat(minValue, maxValue) == { Min2(minValue, maxValue), Max2(minValue, maxValue) }

\* the outcomes of randomInt(minValue, maxValue)
randomInt(minValue, maxValue) == Min2(minValue, maxValue)..Max2(minValue, maxValue)

LanternInstance ==
    [ active |-> FALSE, age |-> 0, duration |-> 0, speed |-> 0,
      p0y |-> 0, p1y |-> 0, p2y |-> 0, p3y |-> 0 ]

\* m_lanternInstances.resize(m_lanternMeshNames.size())
LanternPool(cfg) ==
    IF cfg.enableLanterns
    THEN [i \in 1..Max2(0, cfg.lanternPoolSize) |-> LanternInstance]
    ELSE << >>

RepairHeights_None(l) == l

\* if (p1.y < p0.y) p1.y = p0.y + 100; ... p2 ...; ... p3 ...
RepairHeights(l) ==
    LET a == IF l.p1y < l.p0y THEN [l EXCEPT !.p1y = l.p0y + 100000] ELSE l
        b == IF a.p2y < a.p1y THEN [a EXCEPT !.p2y = a.p1y + 100000] ELSE a
    IN  IF b.p3y < b.p2y THEN [b EXCEPT !.p3y = b.p2y + 100000] ELSE b

\* the lanterns spawnLantern can build in a free slot
SpawnedLanterns(cfg) ==
    { RepairHeights(
        [ active |-> TRUE, age |-> 0, duration |-> duration, speed |-> speed,
          p0y |-> 0, p1y |-> p1Height, p2y |-> p2Height, p3y |-> heightDiff ]) :
        << speed, duration, heightDiff, p1Height, p2Height >> \in
          UNION { UNION { UNION { UNION {
            { << sp, du, hd, h1, h2 >> :
                h2 \in randomFloat(MulDiv(hd, 5, 10), MulDiv(hd, 9, 10)) } :
                h1 \in randomFloat(MulDiv(hd, 3, 10), MulDiv(hd, 7, 10)) } :
                hd \in { Clamp(sp * du * 1000 + var,
                               cfg.lanternTargetHeightMin * 1000,
                               cfg.lanternTargetHeightMax * 1000) :
                         var \in randomFloat(-MulDiv(sp * du * 1000, 3, 10),
                                             MulDiv(sp * du * 1000, 3, 10)) } } :
                du \in randomFloat(cfg.lanternMinLifetime, cfg.lanternMaxLifetime) } :
                sp \in randomFloat(cfg.lanternMinSpeed, cfg.lanternMaxSpeed) } }

\* std::find_if: the first inactive slot, 0 if none
FirstInactive(instances) ==
    IF \E i \in 1..Len(instances) : ~instances[i].active
    THEN CHOOSE i \in 1..Len(instances) :
           /\ ~instances[i].active
           /\ \A j \in 1..(i - 1) : instances[j].active
    ELSE 0

\* the pools one call of spawnLantern can leave
spawnLantern(cfg, instances) ==
    LET it == FirstInactive(instances)
    IN  IF it = 0 THEN { instances }
        ELSE { [instances EXCEPT ![it] = [l EXCEPT !.duration = l.duration * TicksPerSecond]] :
               l \in SpawnedLanterns(cfg) }

\* for (i < spawnCount) spawnLantern();
RECURSIVE SpawnLoop(_, _, _)
SpawnLoop(cfg, instances, spawnCount) ==
    IF spawnCount <= 0 THEN { instances }
    ELSE UNION { SpawnLoop(cfg, next, spawnCount - 1) : next \in spawnLantern(cfg, instances) }

Available(instances) == Cardinality({ i \in 1..Len(instances) : ~instances[i].active })

SpawnCount_Unclamped(drawn, available) == Max2(drawn, 0)

\* spawnCount = std::max(spawnCount, 0); spawnCount = std::min(spawnCount, available)
SpawnCount(drawn, available) == Min2(Max2(drawn, 0), available)

LanternExpired_Late(age, duration) == age > duration

\* float t = age / duration; if (t >= 1.0f): a quotient of 0 / 0 is not >= 1
LanternExpired(age, duration) ==
    IF duration > 0 THEN age >= duration
    ELSE IF duration = 0 THEN age > 0
    ELSE FALSE

\* lantern.active = false; age = 0; duration = 0
deactivateLantern(l) ==
    IF ~l.active THEN l ELSE [l EXCEPT !.active = FALSE, !.age = 0, !.duration = 0]

\* the loop over m_lanternInstances: age every active lantern, retire the old
AgeLanterns(instances, dt) ==
    [ i \in 1..Len(instances) |->
        IF ~instances[i].active THEN instances[i]
        ELSE IF LanternExpired(instances[i].age + dt, instances[i].duration)
        THEN deactivateLantern([instances[i] EXCEPT !.age = instances[i].age + dt])
        ELSE [instances[i] EXCEPT !.age = instances[i].age + dt] ]

\* what the frame's calls of setMeshTransformByName leave on each lantern mesh:
\* the zero scale of deactivateLantern, lanternScale at the evaluated position,
\* or no call for a slot that was inactive
LanternMeshCalls(instances, dt) ==
    [ i \in 1..Len(instances) |->
        IF ~instances[i].active THEN "none"
        ELSE IF LanternExpired(instances[i].age + dt, instances[i].duration) THEN "zero"
        ELSE "lanternScale" ]

\* m_renderer->setLanternLights({})
IdleLights(lights) == << >>

ActiveLights_BeforeDeactivation(instances, dt) ==
    SelectSeq([i \in 1..Len(instances) |-> i], LAMBDA i : instances[i].active)

\* lights.push_back(light) for every lantern the loop did not deactivate
ActiveLights(instances, dt) ==
    SelectSeq([i \in 1..Len(instances) |-> i],
              LAMBDA i : /\ instances[i].active
                         /\ ~LanternExpired(instances[i].age + dt, instances[i].duration))

LanternLogInit ==
    [ran |-> FALSE, spawned |-> 0, available |-> 0, fresh |-> {}, due |-> FALSE, drawn |-> 0,
     dt |-> 0, before |-> << >>, meshCalls |-> << >>, pushes |-> 0, lights |-> << >>]

LanternInit ==
    /\ lanternConfig \in LanternConfigs
    /\ lanternTotalTime = 0
    /\ m_lanternInstances = LanternPool(lanternConfig)
    /\ m_lanternSpawnTimer = 0
    /\ lanternLog = LanternLogInit

LanternIdle ==
    /\ lanternConfig = [ SmallLanternConfig EXCEPT !.enableLanterns = FALSE ]
    /\ lanternTotalTime = 0
    /\ m_lanternInstances = << >>
    /\ m_lanternSpawnTimer = 0
    /\ lanternLog = LanternLogInit

\* a frame in which updateLanterns returns before the spawn timer
UpdateLanternsIdle ==
    /\ \E dt \in 0..MaxDeltaTicks :
        /\ lanternTotalTime + dt <= MaxLanternTime
        /\ lanternTotalTime' = lanternTotalTime + dt
        /\ \/ ~lanternConfig.enableLanterns
           \/ Len(m_lanternInstances) = 0
           \/ lanternTotalTime + dt < lanternConfig.lanternSpawnStartTime * TicksPerSecond
    /\ lanternLog' = [LanternLogInit EXCEPT !.pushes = 1, !.lights = IdleLights(lanternLog.lights)]
    /\ UNCHANGED << lanternConfig, m_lanternInstances, m_lanternSpawnTimer, notLanternVars >>

\* a frame in which updateLanterns runs: spawn on the timer, then age
UpdateLanterns ==
    /\ lanternConfig.enableLanterns
    /\ Len(m_lanternInstances) > 0
    /\ \E dt \in 0..MaxDeltaTicks :
        LET timer1 == m_lanternSpawnTimer + dt
            due == timer1 * 10 >= lanternConfig.lanternSpawnInterval * TicksPerSecond
            minCount == lanternConfig.lanternSpawnCountRange[1]
            maxCount == Max2(lanternConfig.lanternSpawnCountRange[2], minCount)
            available == Available(m_lanternInstances)
        IN  /\ lanternTotalTime + dt <= MaxLanternTime
            /\ lanternTotalTime + dt >= lanternConfig.lanternSpawnStartTime * TicksPerSecond
            /\ lanternTotalTime' = lanternTotalTime + dt
            /\ m_lanternSpawnTimer' = IF due THEN 0 ELSE timer1
            /\ \E drawn \in (IF maxCount > minCount THEN randomInt(minCount, maxCount) ELSE { minCount }) :
                LET spawnCount == IF due THEN SpawnCount(drawn, available) ELSE 0
                IN  \E spawned \in SpawnLoop(lanternConfig, m_lanternInstances, spawnCount) :
                      /\ m_lanternInstances' = AgeLanterns(spawned, dt)
                      /\ lanternLog' = [ran |-> TRUE, spawned |-> spawnCount, available |-> available,
                                        fresh |-> { i \in 1..Len(spawned) :
                                                      spawned[i].active /\ ~m_lanternInstances[i].active },
                                        due |-> due, drawn |-> IF due THEN drawn ELSE 0,
                                        dt |-> dt, before |-> spawned,
                                        meshCalls |-> LanternMeshCalls(spawned, dt),
                                        pushes |-> 1, lights |-> ActiveLights(spawned, dt)]
    /\ UNCHANGED << lanternConfig, notLanternVars >>

----------------------------------------------------------------------------
(* ParticleSystem::emit and ParticleSystem::update                         *)
(* ages, lifetimes and deltaSeconds in 1/100 second, one axis of the       *)
(* position (units), velocity (units/s) and acceleration (units/s^2)       *)

\* the SpawnParams emit is called with
SpawnParamsSet ==
    { [ lifetime |-> lt, velocity |-> v, acceleration |-> a ] :
        lt \in { 0, 50, 100 }, v \in { 0, 100 }, a \in { 0, -100 } }

\* the deltaSeconds update is called with
UpdateDeltas == { -50, 0, 50, 100 }

EmitAllowed_OffByOne(size, maxParticles) == size <= maxParticles

\* if (m_particles.size() >= m_maxParticles) return;
EmitAllowed(size, maxParticles) == size < maxParticles

\* particle.lifetime = std::max(0.01f, params.lifetime); particle.age = 0
NewParticle(params) ==
    [ position |-> 0, velocity |-> params.velocity, acceleration |-> params.acceleration,
      lifetime |-> Max2(1, params.lifetime), age |-> 0 ]

\* one pass of processRange over a particle
ProcessParticle(particle, dt) ==
    LET velocity1 == particle.velocity + MulDiv(particle.acceleration * dt, 1, 100)
    IN  [ particle EXCEPT
            !.age = particle.age + dt,
            !.velocity = velocity1,
            !.position = particle.position + MulDiv(velocity1 * dt, 1, 100) ]

\* processRange(begin, end) over m_particles, indices from 1, end exclusive
ProcessRange(particles, begin, end, dt) ==
    [ i \in 1..Len(particles) |->
        IF begin <= i /\ i < end THEN ProcessParticle(particles[i], dt) ELSE particles[i] ]

kParallelThreshold == 1200

\* the two halves run on two threads over disjoint index ranges
ProcessAll(particles, dt) ==
    IF Len(particles) > kParallelThreshold
    THEN LET mid == Len(particles) \div 2
         IN  ProcessRange(ProcessRange(particles, mid + 1, Len(particles) + 1, dt), 1, mid + 1, dt)
    ELSE ProcessRange(particles, 1, Len(particles) + 1, dt)

RemoveExpired_Strict(particles) == SelectSeq(particles, LAMBDA p : p.age <= p.lifetime)

\* std::remove_if(age >= lifetime) + erase: the survivors in their order
RECURSIVE RemoveExpired(_)
RemoveExpired(particles) ==
    IF particles = << >> THEN << >>
    ELSE IF Head(particles).age >= Head(particles).lifetime
         THEN RemoveExpired(Tail(particles))
         ELSE << Head(particles) >> \o RemoveExpired(Tail(particles))

activeParticleCount == Len(m_particles)

ParticleLogInit == [op |-> "none", full |-> FALSE, before |-> << >>, countBefore |-> 0, dt |-> 0]

\* no update is running
NoRange == [begin |-> 1, next |-> 1, end |-> 1]

UpdateLogInit ==
    [done |-> FALSE, parallel |-> FALSE, before |-> << >>, dt |-> 0, visits |-> << >>]

UpdateIdle ==
    /\ parallelThreshold = kParallelThreshold
    /\ updatePc = "idle"
    /\ updateThreads = [main |-> NoRange, worker |-> NoRange]
    /\ updateLog = UpdateLogInit

ParticleInit ==
    /\ m_maxParticles \in 0..MaxParticles
    /\ m_particles = << >>
    /\ particleLog = ParticleLogInit
    /\ UpdateIdle

ParticleIdle ==
    /\ m_maxParticles = 0
    /\ m_particles = << >>
    /\ particleLog = ParticleLogInit
    /\ UpdateIdle

Emit ==
    /\ \E params \in SpawnParamsSet :
        LET full == ~EmitAllowed(Len(m_particles), m_maxParticles)
        IN  /\ m_particles' = IF full THEN m_particles
                              ELSE Append(m_particles, NewParticle(params))
            /\ particleLog' = [op |-> "emit", full |-> full,
                               before |-> IF full THEN m_particles ELSE << >>,
                               countBefore |-> Len(m_particles), dt |-> 0]
    /\ UNCHANGED << m_maxParticles, updateVars, notParticleVars >>

Update ==
    /\ \E deltaS \in UpdateDeltas :
        LET dt == Max2(0, deltaS)
        IN  /\ m_particles' = IF m_particles = << >> THEN m_particles
                              ELSE RemoveExpired(ProcessAll(m_particles, dt))
            /\ particleLog' = [op |-> "update", full |-> FALSE, before |-> << >>,
                               countBefore |-> Len(m_particles), dt |-> deltaS]
    /\ UNCHANGED << m_maxParticles, updateVars, notParticleVars >>

----------------------------------------------------------------------------
(* ParticleSystem::update thread by thread: the calling thread and the     *)
(* std::async worker each integrate one particle per step                  *)

\* a split threshold small enough for lists of MaxParticles particles to
\* take the concurrent path
SmallParallelThreshold == 2

ParallelThresholds == { SmallParallelThreshold, kParallelThreshold }

\* the SpawnParams the particles of the list were emitted with
ParallelParams ==
    { p \in SpawnParamsSet : p.lifetime > 0 /\ (p.velocity = 0 <=> p.acceleration = 0) }

\* the lists n or fewer calls of emit build
RECURSIVE ParticleLists(_)
ParticleLists(n) ==
    IF n = 0 THEN { << >> }
    ELSE LET shorter == ParticleLists(n - 1)
         IN  shorter \cup { Append(l, NewParticle(p)) :
                               l \in { x \in shorter : Len(x) = n - 1 }, p \in ParallelParams }

ParallelInit ==
    /\ m_maxParticles = MaxParticles
    /\ m_particles \in ParticleLists(MaxParticles)
    /\ particleLog = ParticleLogInit
    /\ parallelThreshold \in ParallelThresholds
    /\ updatePc = "idle"
    /\ updateThreads = [main |-> NoRange, worker |-> NoRange]
    /\ updateLog = UpdateLogInit

\* processRange(0, mid) on the calling thread, indices from 1
MainRange(size, mid) == [begin |-> 1, next |-> 1, end |-> mid + 1]

WorkerRange_Overlapping(size, mid) == [begin |-> mid, next |-> mid, end |-> size + 1]

\* std::async(processRange, mid, size), indices from 1
WorkerRange(size, mid) == [begin |-> mid + 1, next |-> mid + 1, end |-> size + 1]

\* processRange(0, size) on the calling thread
WholeRange(size) == [begin |-> 1, next |-> 1, end |-> size + 1]

\* update is called: empty list -> return; dt; the split
UpdateStart ==
    /\ updatePc = "idle"
    /\ \E deltaS \in UpdateDeltas :
        LET dt == Max2(0, deltaS)
            size == Len(m_particles)
            mid == size \div 2
            parallel == size > parallelThreshold
        IN  /\ updateLog' = [done |-> (size = 0), parallel |-> (size > 0 /\ parallel),
                             before |-> m_particles, dt |-> dt,
                             visits |-> [i \in 1..size |-> 0]]
            /\ updatePc' = IF size = 0 THEN "idle"
                           ELSE IF parallel THEN "parallel" ELSE "sequential"
            /\ updateThreads' =
                  IF size = 0 THEN [main |-> NoRange, worker |-> NoRange]
                  ELSE IF parallel
                       THEN [main |-> MainRange(size, mid), worker |-> WorkerRange(size, mid)]
                       ELSE [main |-> WholeRange(size), worker |-> NoRange]
    /\ UNCHANGED << m_maxParticles, m_particles, particleLog, parallelThreshold, notParticleVars >>

\* one iteration of processRange on the calling thread
MainThreadStep ==
    /\ updatePc \in {"parallel", "sequential"}
    /\ updateThreads.main.next < updateThreads.main.end
    /\ LET i == updateThreads.main.next
       IN  /\ m_particles' = ProcessRange(m_particles, i, i + 1, updateLog.dt)
           /\ updateThreads' = [updateThreads EXCEPT !.main.next = i + 1]
           /\ updateLog' = [updateLog EXCEPT !.visits[i] = @ + 1]
    /\ UNCHANGED << m_maxParticles, particleLog, parallelThreshold, updatePc, notParticleVars >>

\* one iteration of processRange on the std::async thread
WorkerThreadStep ==
    /\ updatePc = "parallel"
    /\ updateThreads.worker.next < updateThreads.worker.end
    /\ LET i == updateThreads.worker.next
       IN  /\ m_particles' = ProcessRange(m_particles, i, i + 1, updateLog.dt)
           /\ updateThreads' = [updateThreads EXCEPT !.worker.next = i + 1]
           /\ updateLog' = [updateLog EXCEPT !.visits[i] = @ + 1]
    /\ UNCHANGED << m_maxParticles, particleLog, parallelThreshold, updatePc, notParticleVars >>

\* processRange returned on the calling thread and future.get() returned
RangesDone ==
    /\ updatePc \in {"parallel", "sequential"}
    /\ updateThreads.main.next = updateThreads.main.end
    /\ updatePc = "parallel" => updateThreads.worker.next = updateThreads.worker.end
    /\ updatePc' = "erase"
    /\ UNCHANGED << m_maxParticles, m_particles, particleLog, parallelThreshold,
                    updateThreads, updateLog, notParticleVars >>

\* m_particles.erase(std::remove_if(...)) and return
EraseExpired ==
    /\ updatePc = "erase"
    /\ m_particles' = RemoveExpired(m_particles)
    /\ updatePc' = "idle"
    /\ updateLog' = [updateLog EXCEPT !.done = TRUE]
    /\ UNCHANGED << m_maxParticles, particleLog, parallelThreshold, updateThreads, notParticleVars >>

----------------------------------------------------------------------------
(* The yaw interpolation of updateCameraMotion as a function of its inputs *)

YawDegrees == { -540, -360, -270, -181, -180, -179, -90, -1, 0, 1, 90, 179, 180, 181, 270, 360, 540 }
YawValues == { F32(Deg(d) + e) : d \in YawDegrees, e \in { -4, 0, 4 } }
SmoothSteps == { SmoothStep([a |-> a, b |-> 4]) : a \in 0..4 }

YawIdle ==
    /\ yawInput = << 0, 0 >>
    /\ yawOutput = [done |-> FALSE, scriptedDiff |-> 0, resumeDiff |-> 0, scriptedSweep |-> 0, resumeSweep |-> 0]

YawInit ==
    /\ yawInput \in YawValues \X YawValues
    /\ yawOutput = [done |-> FALSE, scriptedDiff |-> 0, resumeDiff |-> 0, scriptedSweep |-> 0, resumeSweep |-> 0]

\* the largest distance from the start yaw over the interpolation steps
MaxOver(S) == CHOOSE m \in S : \A x \in S : x <= m

InterpolateYaw ==
    /\ ~yawOutput.done
    /\ yawOutput' =
          [ done |-> TRUE,
            scriptedDiff |-> ScriptedYawDiff(yawInput[1], yawInput[2]),
            resumeDiff |-> ResumeYawDiff(yawInput[1], yawInput[2]),
            scriptedSweep |-> MaxOver({ Abs(ScriptedYaw(yawInput[1], yawInput[2], s) - NormalizeYaw(yawInput[1])) : s \in SmoothSteps }),
            resumeSweep |-> MaxOver({ Abs(ResumeYaw(NumAngle(yawInput[1]), yawInput[2], s).deg - NormalizeYaw(yawInput[1])) : s \in SmoothSteps }) ]
    /\ UNCHANGED << yawInput, notYawVars >>

----------------------------------------------------------------------------
(* FlagGenerator::updateFlagVertices                                       *)
(* A float the code computes with sines and square roots is kept as the   *)
(* exact operands of the expression that computes it.  A parameter t of   *)
(* the surface is a pair << p, q >> standing for p / q, and a basis value *)
(* is kept as its numerator over the power of q that the degree fixes.    *)

\* std::pow with an exponent that is a non-negative integer; pow(0, 0) is 1
RECURSIVE Power(_, _)
Power(x, k) == IF k <= 0 THEN 1 ELSE x * Power(x, k - 1)

\* for (j < i) binomial = binomial * (n - j) / (j + 1)
RECURSIVE Binomial(_, _)
Binomial(n, i) == IF i <= 0 THEN 1 ELSE (Binomial(n, i - 1) * (n - (i - 1))) \div i

\* binomial * t^i * (1 - t)^(n - i), times q^n
bernsteinBasis(n, i, t) ==
    IF i < 0 \/ i > n THEN 0
    ELSE IF n = 0 THEN 1
    ELSE Binomial(n, i) * Power(t[1], i) * Power(t[2] - t[1], n - i)

\* the derivative of the basis function, times q^(n - 1)
bernsteinBasisDerivative(n, i, t) ==
    IF i < 0 \/ i > n THEN 0
    ELSE IF n = 0 THEN 0
    ELSE IF i = 0 THEN -n * Power(t[2] - t[1], n - 1)
    ELSE IF i = n THEN n * Power(t[1], n - 1)
    ELSE Binomial(n, i) * (i * Power(t[1], i - 1) * Power(t[2] - t[1], n - i)
                           - (n - i) * Power(t[1], i) * Power(t[2] - t[1], n - i - 1))

pseudoRandom_Stateful(i, j, seed) ==
    i * 129898 + j * 782330 + seed * 377190 + Len(generatorCalls)

\* fract(sin(dotVal) * 43758.5453) is a fixed function of dotVal, which is
\* i * 12.9898 + j * 78.233 + seed * 37.719: kept as dotVal in 1/10000
pseudoRandom(i, j, seed) == i * 129898 + j * 782330 + seed * 377190

\* controlPointsU = std::max(2, controlPointsU), and the same for V
GridU(args) == Max2(2, args.controlPointsU)
GridV(args) == Max2(2, args.controlPointsV)

\* controlPoints[i][j]: basePos and the operands of the wave offsets
ControlPoint(args, i, j) ==
    [ u |-> << i, GridU(args) - 1 >>,
      v |-> << j, GridV(args) - 1 >>,
      x |-> << args.width * (2 * i - (GridU(args) - 1)), 2 * (GridU(args) - 1) >>,
      y |-> << args.height * (2 * j - (GridV(args) - 1)), 2 * (GridV(args) - 1) >>,
      displacementFactor |->
          IF i = 0 THEN << 0, 1 >>
          ELSE << Power(GridU(args) - 1, 2) + 3 * i * i, 4 * Power(GridU(args) - 1, 2) >>,
      wavePhase |-> args.animationTime * args.waveFrequency,
      waveAmplitude |-> args.waveAmplitude,
      randomPhase |-> pseudoRandom(i, j, 0),
      randomAmplitudeScale |-> pseudoRandom(i, j, 1),
      randomFrequencyScale |-> pseudoRandom(i, j, 2),
      randomDrift |-> pseudoRandom(i, j, 3) ]

\* sum over i, j of controlPoints[i][j] * weight(i, j), in loop order
WeightedPoints(args, weight(_, _)) ==
    [ k \in 1..(GridU(args) * GridV(args)) |->
        LET i == (k - 1) \div GridV(args)
            j == (k - 1) % GridV(args)
        IN  << weight(i, j), ControlPoint(args, i, j) >> ]

\* the vertex of column u, row v of the surface grid
FlagVertex(args, u, v) ==
    LET uParam == << u, args.segmentsU >>
        vParam == << v, args.segmentsV >>
        basisU(i) == bernsteinBasis(GridU(args) - 1, i, uParam)
        basisV(j) == bernsteinBasis(GridV(args) - 1, j, vParam)
        dBasisU(i) == bernsteinBasisDerivative(GridU(args) - 1, i, uParam)
        dBasisV(j) == bernsteinBasisDerivative(GridV(args) - 1, j, vParam)
        position(i, j) == basisU(i) * basisV(j)
        tangentU(i, j) == dBasisU(i) * basisV(j)
        tangentV(i, j) == basisU(i) * dBasisV(j)
    IN  [ position |-> WeightedPoints(args, position),
          normal |-> [ tangentU |-> WeightedPoints(args, tangentU),
                       tangentV |-> WeightedPoints(args, tangentV) ],
          uv |-> << uParam, << args.segmentsV - v, args.segmentsV >> >> ]

\* the returned vertices, row by row, and what *outControlPoints holds
updateFlagVertices(args) ==
    [ vertices |->
        [ k \in 1..((args.segmentsU + 1) * (args.segmentsV + 1)) |->
            FlagVertex(args, (k - 1) % (args.segmentsU + 1), (k - 1) \div (args.segmentsU + 1)) ],
      outControlPoints |->
        IF args.outControlPoints
        THEN [ k \in 1..(GridU(args) * GridV(args)) |->
                 ControlPoint(args, (k - 1) \div GridV(args), (k - 1) % GridV(args)) ]
        ELSE << >> ]

\* the arguments of the calls: outControlPoints is TRUE for a pointer to a
\* vector and FALSE for nullptr
GeneratorArgs ==
    [ width : { 4 }, height : { 2 },
      controlPointsU : { 1, 3 }, controlPointsV : { 2 },
      segmentsU : { 2 }, segmentsV : { 1 },
      animationTime : { 1, 2 }, waveAmplitude : { 1 }, waveFrequency : { 1 },
      outControlPoints : BOOLEAN ]

GeneratorInit == generatorCalls = << >>

GeneratorIdle == GeneratorInit

CallUpdateFlagVertices ==
    /\ Len(generatorCalls) < MaxGeneratorCalls
    /\ \E args \in GeneratorArgs :
         generatorCalls' = Append(generatorCalls,
                                  [args |-> args, result |-> updateFlagVertices(args)])
    /\ UNCHANGED notGeneratorVars

----------------------------------------------------------------------------
(* The calls of setMeshTransformByName and updateMeshVerticesByName        *)
(* Each update is reduced to its life cycle, its count of updates and its  *)
(* calls on the renderer; the renderer answers FALSE for a name it holds   *)
(* no mesh for.                                                            *)

MeshNames == { "airplane", "missile", "lantern_0", "flag" } \cup WingmanNames

\* the mesh tables of the renderer: the whole scene, and scenes that lack the
\* meshes of one model
SceneMeshSets ==
    { MeshNames, MeshNames \ WingmanNames, MeshNames \ { "airplane" },
      MeshNames \ { "missile" }, MeshNames \ { "lantern_0" }, MeshNames \ { "flag" } }

\* calls whose bool result the caller drops
IgnoredCalls(log, names) ==
    [ n \in MeshNames |->
        IF n \in names /\ n \notin sceneMeshes
        THEN [log[n] EXCEPT !.misses = @ + 1]
        ELSE log[n] ]

\* calls followed by: if (!set) { if (!warned) { log(Error, ...); warned = true; } }
WarnedCalls(log, names) ==
    [ n \in MeshNames |->
        IF n \in names /\ n \notin sceneMeshes
        THEN [misses |-> log[n].misses + 1,
              logged |-> IF n \in warned THEN log[n].logged ELSE log[n].logged + 1]
        ELSE log[n] ]

MeshInit ==
    /\ sceneMeshes \in SceneMeshSets
    /\ warned = {}
    /\ meshLog = [ n \in MeshNames |-> [misses |-> 0, logged |-> 0] ]
    /\ meshEntities = [ airplane |-> [phase |-> "waiting", updates |-> 0],
                        missile |-> [phase |-> "waiting", updates |-> 0],
                        lantern |-> [phase |-> "waiting", updates |-> 0],
                        flag |-> [phase |-> "active", updates |-> 0] ]

MeshIdle ==
    /\ sceneMeshes = MeshNames
    /\ warned = {}
    /\ meshLog = [ n \in MeshNames |-> [misses |-> 0, logged |-> 0] ]
    /\ meshEntities = [ airplane |-> [phase |-> "gone", updates |-> 0],
                        missile |-> [phase |-> "gone", updates |-> 0],
                        lantern |-> [phase |-> "gone", updates |-> 0],
                        flag |-> [phase |-> "gone", updates |-> 0] ]

\* a frame of updateAirplaneAnimation from the spawn on: the despawn hides
\* the five meshes, any other frame moves the airplane and places them
UpdateAirplaneMeshes ==
    /\ meshEntities.airplane.phase \in { "waiting", "active" }
    /\ meshEntities.airplane.updates < MaxMeshUpdates
    /\ \E lifetimeExpired \in { FALSE, meshEntities.airplane.phase = "active" } :
         IF lifetimeExpired
         THEN /\ meshEntities' = [meshEntities EXCEPT !.airplane.phase = "gone"]
              /\ meshLog' = IgnoredCalls(meshLog, { "airplane" } \cup WingmanNames)
              /\ UNCHANGED warned
         ELSE /\ meshEntities' = [meshEntities EXCEPT !.airplane.phase = "active",
                                                      !.airplane.updates = @ + 1]
              /\ meshLog' = WarnedCalls(meshLog, { "airplane" } \cup WingmanNames)
              /\ warned' = warned \cup ((({ "airplane" } \cup WingmanNames)) \ sceneMeshes)
    /\ UNCHANGED << sceneMeshes, notMeshVars >>

\* a frame of updateMissileAnimation from the drop on: the missile moves,
\* then either hits the ground and is hidden or is placed
UpdateMissileMesh ==
    /\ \/ meshEntities.missile.phase = "active"
       \/ meshEntities.missile.phase = "waiting" /\ meshEntities.airplane.phase = "active"
    /\ meshEntities.missile.updates < MaxMeshUpdates
    /\ \E hitsGround \in BOOLEAN :
         IF hitsGround
         THEN /\ meshEntities' = [meshEntities EXCEPT !.missile.phase = "gone",
                                                      !.missile.updates = @ + 1]
              /\ meshLog' = IgnoredCalls(meshLog, { "missile" })
              /\ UNCHANGED warned
         ELSE /\ meshEntities' = [meshEntities EXCEPT !.missile.phase = "active",
                                                      !.missile.updates = @ + 1]
              /\ meshLog' = WarnedCalls(meshLog, { "missile" })
              /\ warned' = warned \cup ({ "missile" } \ sceneMeshes)
    /\ UNCHANGED << sceneMeshes, notMeshVars >>

\* a frame of updateLanterns for one slot: spawnLantern places a free slot,
\* the loop ages an active one and places or hides it
UpdateLanternMesh ==
    /\ meshEntities.lantern.updates < MaxMeshUpdates
    /\ meshEntities.lantern.phase \in { "waiting", "active" }
    /\ \E expired \in BOOLEAN :
         LET spawned == IF meshEntities.lantern.phase = "waiting"
                        THEN IgnoredCalls(meshLog, { "lantern_0" })
                        ELSE meshLog
         IN  /\ meshLog' = IgnoredCalls(spawned, { "lantern_0" })
             /\ meshEntities' = [meshEntities EXCEPT
                                   !.lantern.phase = IF expired THEN "waiting" ELSE "active",
                                   !.lantern.updates = @ + 1]
    /\ UNCHANGED << sceneMeshes, warned, notMeshVars >>

\* a frame of updateFlagAnimation that collects a finished job
UpdateFlagMesh ==
    /\ meshEntities.flag.phase = "active"
    /\ meshEntities.flag.updates < MaxMeshUpdates
    /\ meshLog' = IgnoredCalls(meshLog, { "flag" })
    /\ meshEntities' = [meshEntities EXCEPT !.flag.updates = @ + 1]
    /\ UNCHANGED << sceneMeshes, warned, notMeshVars >>

----------------------------------------------------------------------------
(* App::updateParticleEffects and App::emitTrailParticles                  *)
(* the accumulators count particles in 1/TicksPerSecond, so that           *)
(* airplaneTrailSpawnRate (particles/s) times deltaSeconds (ticks) is      *)
(* added to them as it is; particle times are in 1/100 second              *)

\* std::array<float, 5> m_trailSpawnAccumulators
kTrailEmitters == 5

\* 1.0f on the scale of the accumulators
TrailOne == TicksPerSecond

\* a frame delta in ticks as the 1/100 seconds ParticleSystem::update takes
TickCentis(dt) == (dt * 100) \div TicksPerSecond

\* the trail fields with a lifetime of one second and a rate of three
\* particles per second and emitter
SmallTrailConfig ==
    [ enableAirplaneTrails          |-> TRUE,
      airplaneTrailSpawnRate        |-> 3,
      airplaneTrailParticleLifetime |-> 100,
      airplaneTrailInitialSpeed     |-> 450,
      airplaneTrailSpeedVariance    |-> 120,
      airplaneTrailGravity          |-> 150 ]

TrailConfigs ==
    { [SmallTrailConfig EXCEPT !.airplaneTrailSpawnRate = r] : r \in { -1, 0, 1, 3 } }
        \cup { [SmallTrailConfig EXCEPT !.enableAirplaneTrails = FALSE] }

\* randomFloat(-1, 1) scaled by airplaneTrailSpeedVariance: its two ends
TrailDraws == { -1, 1 }

\* one draw for each particle the pool can take
TrailDrawSeqs == [ 1..MaxParticles -> TrailDraws ]

\* the SpawnParams of a trail particle, along the flight direction
TrailParams(cfg, draw) ==
    [ lifetime     |-> cfg.airplaneTrailParticleLifetime,
      velocity     |-> -Max2(0, cfg.airplaneTrailInitialSpeed
                                    + draw * cfg.airplaneTrailSpeedVariance),
      acceleration |-> -Abs(cfg.airplaneTrailGravity) ]

KeepsEmitting_Strict(accumulator) == accumulator > TrailOne

\* while (accumulator >= 1.0f)
KeepsEmitting(accumulator) == accumulator >= TrailOne

\* the body of the loop, time after time: accumulator -= 1.0f, the
\* SpawnParams, m_particleSystem->emit(params), whose refusal is not seen
RECURSIVE TrailLoop(_, _, _, _)
TrailLoop(cfg, run, index, draws) ==
    IF ~KeepsEmitting(run.accumulators[index]) THEN run
    ELSE LET full == ~EmitAllowed(Len(run.particles), run.maxParticles)
             params == TrailParams(cfg, draws[Min2(run.accepted + 1, MaxParticles)])
         IN  TrailLoop(cfg,
                       [ run EXCEPT
                           !.accumulators[index] = @ - TrailOne,
                           !.particles = IF full THEN @ ELSE Append(@, NewParticle(params)),
                           !.attempts[index] = @ + 1,
                           !.accepted = IF full THEN @ ELSE @ + 1 ],
                       index, draws)

\* emitTrailParticles(..., accumulatorIndex, deltaSeconds)
EmitTrailParticles(cfg, run, accumulatorIndex, dt, draws) ==
    IF ~run.exists \/ accumulatorIndex >= kTrailEmitters THEN run
    ELSE IF cfg.airplaneTrailSpawnRate <= 0 THEN run
    ELSE TrailLoop(cfg,
                   [ run EXCEPT !.accumulators[accumulatorIndex] =
                                    @ + cfg.airplaneTrailSpawnRate * dt ],
                   accumulatorIndex, draws)

\* m_particleSystem->update(deltaSeconds)
ParticlesAfterUpdate(particles, deltaS) ==
    IF particles = << >> THEN particles
    ELSE RemoveExpired(ProcessAll(particles, Max2(0, deltaS)))

\* if (!m_config.enableAirplaneTrails || !m_airplaneActive) return;
TrailsRun(cfg, active) == cfg.enableAirplaneTrails /\ active

NoAttempts == [ i \in 0..(kTrailEmitters - 1) |-> 0 ]

TrailLogInit ==
    [ called |-> FALSE, active |-> FALSE, dt |-> 0, before |-> NoAttempts,
      attempts |-> NoAttempts, accepted |-> 0 ]

TrailIdle ==
    /\ trailConfig = SmallTrailConfig
    /\ m_particleSystem = FALSE
    /\ m_trailSpawnAccumulators = NoAttempts
    /\ trailLog = TrailLogInit

\* the App after construction: a pool exists or not, the accumulators at 0
TrailInit ==
    /\ trailConfig \in TrailConfigs
    /\ m_particleSystem \in BOOLEAN
    /\ m_maxParticles \in (IF m_particleSystem THEN 1..MaxParticles ELSE { 0 })
    /\ m_particles = << >>
    /\ particleLog = ParticleLogInit
    /\ UpdateIdle
    /\ m_trailSpawnAccumulators = NoAttempts
    /\ trailLog = TrailLogInit

\* the five calls of emitTrailParticles, airplane first, then the wingmen
EmitAllTrails(cfg, run, dt, draws) ==
    LET run0 == EmitTrailParticles(cfg, run, 0, dt, draws)
        run1 == EmitTrailParticles(cfg, run0, 1, dt, draws)
        run2 == EmitTrailParticles(cfg, run1, 2, dt, draws)
        run3 == EmitTrailParticles(cfg, run2, 3, dt, draws)
    IN  EmitTrailParticles(cfg, run3, 4, dt, draws)

UpdateParticleEffects ==
    /\ \E dt \in 0..MaxDeltaTicks, draws \in TrailDrawSeqs :
        IF ~m_particleSystem
        THEN /\ trailLog' = [TrailLogInit EXCEPT !.active = m_airplaneActive, !.dt = dt,
                                                  !.before = m_trailSpawnAccumulators]
             /\ UNCHANGED << m_particles, m_trailSpawnAccumulators >>
        ELSE LET updated == ParticlesAfterUpdate(m_particles, TickCentis(dt))
                 run == EmitAllTrails(trailConfig,
                                      [ exists |-> m_particleSystem,
                                        maxParticles |-> m_maxParticles,
                                        particles |-> updated,
                                        accumulators |-> m_trailSpawnAccumulators,
                                        attempts |-> NoAttempts,
                                        accepted |-> 0 ],
                                      dt, draws)
             IN  IF ~TrailsRun(trailConfig, m_airplaneActive)
                 THEN /\ m_particles' = updated
                      /\ trailLog' = [TrailLogInit EXCEPT !.active = m_airplaneActive,
                                          !.dt = dt, !.before = m_trailSpawnAccumulators]
                      /\ UNCHANGED m_trailSpawnAccumulators
                 ELSE /\ m_particles' = run.particles
                      /\ m_trailSpawnAccumulators' = run.accumulators
                      /\ trailLog' = [ called |-> TRUE, active |-> m_airplaneActive,
                                       dt |-> dt, before |-> m_trailSpawnAccumulators,
                                       attempts |-> run.attempts,
                                       accepted |-> run.accepted ]
    /\ UNCHANGED << m_maxParticles, particleLog, updateVars, trailConfig, m_particleSystem,
                    frameVars, flagVars, lanternVars, yawVars, generatorVars, meshVars >>

\* what updateAirplaneAnimation does, between two calls, to the flag the
\* trail reads: the airplane spawns once and despawns after it
AirplaneLifeCycle ==
    /\ \/ /\ ~m_airplaneHasSpawned
          /\ m_airplaneActive' = TRUE
          /\ m_airplaneHasSpawned' = TRUE
       \/ /\ m_airplaneActive
          /\ m_airplaneActive' = FALSE
          /\ UNCHANGED m_airplaneHasSpawned
    /\ UNCHANGED << m_config, pc, deltaSeconds, m_totalTime, m_camera,
                    m_reachedKeyframe3, m_missileExploded, m_missileExplosionTime,
                    m_missileExplosionPosition, m_resumingToKeyframe4,
                    m_airplaneDisappearTime, m_cameraWhenAirplaneDisappeared,
                    m_airplaneSpawnTime, m_airplanePosition, m_missileActive,
                    m_missileHasSpawned, m_missileSpawnTime, m_missilePosition,
                    m_missileVelocity, m_missileRotationAngle, m_wingmanPosition,
                    meshTransform, frameLog, runLog >>
    /\ UNCHANGED << flagVars, lanternVars, particleVars, yawVars, generatorVars,
                    meshVars, trailVars >>

----------------------------------------------------------------------------
(* Specifications *)

Init == FrameInit /\ FlagIdle /\ LanternIdle /\ ParticleIdle /\ YawIdle /\ GeneratorIdle /\ MeshIdle /\ TrailIdle

Next ==
    \/ Tick
    \/ UpdateCameraMotion
    \/ UpdateAirplaneAnimation
    \/ UpdateMissileAnimation

Spec == Init /\ [][Next]_vars

\* the frame loop under ZeroResumeConfig
ZeroResumeInit ==
    /\ m_config = ZeroResumeConfig
    /\ FrameStart
    /\ FlagIdle /\ LanternIdle /\ ParticleIdle /\ YawIdle /\ GeneratorIdle /\ MeshIdle /\ TrailIdle

ZeroResumeSpec == ZeroResumeInit /\ [][Next]_vars

\* the frame loop with a missile that spins the other way, or three times
\* as fast
SpinInit ==
    /\ m_config \in SpinConfigs
    /\ FrameStart
    /\ FlagIdle /\ LanternIdle /\ ParticleIdle /\ YawIdle /\ GeneratorIdle /\ MeshIdle /\ TrailIdle

SpinSpec == SpinInit /\ [][Next]_vars

\* the frame loop with an airplane that may despawn before it drops its
\* missile
DropInit ==
    /\ m_config \in DropConfigs
    /\ FrameStart
    /\ FlagIdle /\ LanternIdle /\ ParticleIdle /\ YawIdle /\ GeneratorIdle /\ MeshIdle /\ TrailIdle

DropSpec == DropInit /\ [][Next]_vars

\* the frame loop under EarlyDespawnConfig
EarlyDespawnInit ==
    /\ m_config = EarlyDespawnConfig
    /\ FrameStart
    /\ FlagIdle /\ LanternIdle /\ ParticleIdle /\ YawIdle /\ GeneratorIdle /\ MeshIdle /\ TrailIdle

EarlyDespawnSpec == EarlyDespawnInit /\ [][Next]_vars

\* the frame loop under the default configuration, every frame running to
\* its end and frames with a positive deltaSeconds arriving again and again
\* as long as the time bound admits one
MissileLiveInit ==
    /\ m_config = DefaultConfig
    /\ FrameStart
    /\ FlagIdle /\ LanternIdle /\ ParticleIdle /\ YawIdle /\ GeneratorIdle /\ MeshIdle /\ TrailIdle

\* the frame loop under the default configuration, frames arriving or not
DefaultSpec == MissileLiveInit /\ [][Next]_vars

PositiveTick == Tick /\ m_totalTime' > m_totalTime

\* the three updates of a frame have no guard but their place in the frame:
\* a step of Next that moves pc on from "camera", "airplane" or "missile"
\* is that update, and it is enabled whenever pc is there
FrameContinues ==
    \/ pc = "camera" /\ pc' = "airplane"
    \/ pc = "airplane" /\ pc' = "missile"
    \/ pc = "missile" /\ pc' = "tick"

MissileLiveSpec ==
    MissileLiveInit /\ [][Next]_vars /\ WF_pc(FrameContinues) /\ SF_vars(PositiveTick)

FlagSpecInit == FrameIdle /\ FlagInit /\ LanternIdle /\ ParticleIdle /\ YawIdle /\ GeneratorIdle /\ MeshIdle /\ TrailIdle

FlagNext ==
    \/ UpdateFlagAnimation
    \/ UpdateFlagAnimationNoFlag
    \/ FlagJobStarts
    \/ FlagJobCompletes

FlagSpec == FlagSpecInit /\ [][FlagNext]_vars

\* the flag frames up to the exit of App::run
FlagRunNext ==
    \/ FlagNext
    \/ ExitLoop

FlagRunSpec == FlagSpecInit /\ [][FlagRunNext]_vars

LanternSpecInit == FrameIdle /\ FlagIdle /\ LanternInit /\ ParticleIdle /\ YawIdle /\ GeneratorIdle /\ MeshIdle /\ TrailIdle

LanternNext ==
    \/ UpdateLanternsIdle
    \/ UpdateLanterns

LanternSpec == LanternSpecInit /\ [][LanternNext]_vars

\* lifetimes of one or two seconds, one lantern per spawn
LanternLiveConfig ==
    [ SmallLanternConfig EXCEPT !.lanternMinLifetime = 1, !.lanternMaxLifetime = 2,
                                !.lanternSpawnCountRange = << 1, 1 >> ]

\* the lantern pool under LanternLiveConfig, frames with a positive
\* deltaSeconds arriving as long as the time bound admits one
LanternLiveInit ==
    /\ lanternConfig = LanternLiveConfig
    /\ lanternTotalTime = 0
    /\ m_lanternInstances = LanternPool(lanternConfig)
    /\ m_lanternSpawnTimer = 0
    /\ lanternLog = LanternLogInit
    /\ FrameIdle /\ FlagIdle /\ ParticleIdle /\ YawIdle /\ GeneratorIdle /\ MeshIdle /\ TrailIdle

PositiveLanternFrame == UpdateLanterns /\ lanternTotalTime' > lanternTotalTime

LanternLiveSpec ==
    LanternLiveInit /\ [][LanternNext]_vars /\ WF_vars(PositiveLanternFrame)

\* the lantern pool under LowBandConfigs
LowBandInit ==
    /\ lanternConfig \in LowBandConfigs
    /\ lanternTotalTime = 0
    /\ m_lanternInstances = LanternPool(lanternConfig)
    /\ m_lanternSpawnTimer = 0
    /\ lanternLog = LanternLogInit
    /\ FrameIdle /\ FlagIdle /\ ParticleIdle /\ YawIdle /\ GeneratorIdle /\ MeshIdle /\ TrailIdle

LowBandSpec == LowBandInit /\ [][LanternNext]_vars

ParticleSpecInit == FrameIdle /\ FlagIdle /\ LanternIdle /\ ParticleInit /\ YawIdle /\ GeneratorIdle /\ MeshIdle /\ TrailIdle

ParticleNext ==
    \/ Emit
    \/ Update

ParticleSpec == ParticleSpecInit /\ [][ParticleNext]_vars

ParallelSpecInit == FrameIdle /\ FlagIdle /\ LanternIdle /\ ParallelInit /\ YawIdle /\ GeneratorIdle /\ MeshIdle /\ TrailIdle

ParallelNext ==
    \/ UpdateStart
    \/ MainThreadStep
    \/ WorkerThreadStep
    \/ RangesDone
    \/ EraseExpired

ParallelSpec == ParallelSpecInit /\ [][ParallelNext]_vars

YawSpecInit == FrameIdle /\ FlagIdle /\ LanternIdle /\ ParticleIdle /\ YawInit /\ GeneratorIdle /\ MeshIdle /\ TrailIdle

YawNext == InterpolateYaw

YawSpec == YawSpecInit /\ [][YawNext]_vars

GeneratorSpecInit ==
    FrameIdle /\ FlagIdle /\ LanternIdle /\ ParticleIdle /\ YawIdle /\ GeneratorInit /\ MeshIdle /\ TrailIdle

GeneratorNext == CallUpdateFlagVertices

GeneratorSpec == GeneratorSpecInit /\ [][GeneratorNext]_vars

MeshSpecInit ==
    FrameIdle /\ FlagIdle /\ LanternIdle /\ ParticleIdle /\ YawIdle /\ GeneratorIdle /\ MeshInit /\ TrailIdle

MeshNext ==
    \/ UpdateAirplaneMeshes
    \/ UpdateMissileMesh
    \/ UpdateLanternMesh
    \/ UpdateFlagMesh

MeshSpec == MeshSpecInit /\ [][MeshNext]_vars

TrailSpecInit ==
    FrameIdle /\ FlagIdle /\ LanternIdle /\ YawIdle /\ GeneratorIdle /\ MeshIdle /\ TrailInit

TrailNext ==
    \/ UpdateParticleEffects
    \/ AirplaneLifeCycle

TrailSpec == TrailSpecInit /\ [][TrailNext]_vars

----------------------------------------------------------------------------
(* Properties of the frame loop                                            *)

FrameEnd == pc = "tick" /\ runLog.frames >= 1
AfterCameraMotion == pc = "airplane"
GroundLevel == m_config.groundHeight * 1000
CameraPoseIs(kf) ==
    /\ m_camera.position = kf.position
    /\ m_camera.yaw = NumAngle(kf.yaw)
    /\ m_camera.pitch = NumAngle(kf.pitch)
Wrote(w) == \E i \in 1..Len(frameLog.writers) : frameLog.writers[i] = w

\* C1 as stated, for the default configuration: with camera motion enabled,
\* every frame has exactly one camera writer among choreographer, airplane
\* tracking and missile tracking.
C1_ExactlyOneWriterPerFrame ==
    (FrameEnd /\ m_config.enableCameraMotion /\ m_config = DefaultConfig) =>
        Len(frameLog.writers) = 1

\* C1 amended: a frame has no camera writer only while the choreographer holds
\* at keyframe 4 (already reached, missile not exploded) and the airplane or
\* the missile is active; the choreographer and airplane tracking both write
\* only when the choreographer is in a scripted segment, reaches keyframe 4
\* for the first time, or ran while the airplane was inactive; and once the
\* choreographer runs its explosion-gaze or resume phase it is the frame's
\* only writer.
C1_WritersPerFrame ==
    (FrameEnd /\ m_config.enableCameraMotion) =>
        /\ Len(frameLog.writers) = 0 =>
              /\ frameLog.phase = "hold"
              /\ frameLog.entryReached
              /\ frameLog.entryAirplaneActive \/ frameLog.entryMissileActive
        /\ (Wrote("scripted") /\ Wrote("airplane")) =>
              \/ frameLog.phase = "scripted"
              \/ ~frameLog.entryReached
              \/ ~frameLog.entryAirplaneActive
        /\ frameLog.phase \in {"gaze", "resume"} => frameLog.writers = << "scripted" >>

\* C1 witness: a frame in which nobody wrote the camera (missile dropped, its
\* camera-track delay not yet elapsed)
C1_FrameWithoutWriter ==
    FrameEnd /\ Len(frameLog.writers) = 0 /\ m_missileActive

\* C3 as stated: airplaneActive flips false->true exactly once, in the first
\* frame whose total time is >= airplaneSpawnTime.
C3_FlipsExactlyOnce ==
    (FrameEnd /\ m_totalTime >= Seconds(m_config.airplaneSpawnTime)) =>
        runLog.activations = 1 /\ runLog.activationFirstDue

\* C3 amended: for airplaneSpawnTime > 0 the flip false->true happens exactly
\* once, in the first frame whose total time is >= airplaneSpawnTime; for
\* airplaneSpawnTime <= 0 the airplane is active from construction and never
\* flips; in both cases it is never set active again after it despawned.
C3_SpawnsOnce ==
    /\ runLog.activations <= 1
    /\ runLog.activationFirstDue
    /\ (runLog.despawns >= 1) => ~m_airplaneActive
    /\ (FrameEnd /\ m_config.airplaneSpawnTime > 0) =>
          (runLog.activations = 1 <=> m_totalTime >= Seconds(m_config.airplaneSpawnTime))
    /\ (m_config.airplaneSpawnTime <= 0) =>
          /\ runLog.activations = 0
          /\ (runLog.despawns = 0) => m_airplaneActive
          /\ FrameEnd => m_airplaneHasSpawned

\* C3 witness: the airplane has spawned at its configured time, lived and
\* despawned, and frames keep coming
C3_AfterDespawn ==
    FrameEnd /\ runLog.activations = 1 /\ runLog.despawns = 1
             /\ m_totalTime > m_airplaneDisappearTime

\* C4: the explosion happens at most once, in the first frame in which the
\* integrated missile position.y is <= groundHeight, recording position and
\* time and deactivating the missile.
C4_ExplodesOnceAtGround ==
    /\ runLog.explosions <= 1
    /\ m_missileExploded <=> runLog.explosions = 1
    /\ m_missileExploded =>
          /\ ~m_missileActive
          /\ runLog.explosionY <= GroundLevel
          /\ m_missileExplosionTime = runLog.explosionTime
          /\ m_missileExplosionPosition[2] = GroundLevel
    /\ frameLog.missileExplodedNow =>
          /\ m_missileExplosionTime = m_totalTime
          /\ frameLog.missileDropped \/ frameLog.missileYBefore > GroundLevel
    /\ (pc = "tick" /\ m_missileActive) => m_missilePosition[2] > GroundLevel

\* C4 witness: the missile has exploded while the airplane that dropped it is
\* still flying, some frames ago
C4_ExplodedEarlier ==
    FrameEnd /\ m_missileExploded /\ m_airplaneActive /\ m_totalTime > m_missileExplosionTime

\* C5: while the missile is active its position.y never increases from one
\* frame to the next.
C5_MissileNeverRises ==
    frameLog.missileIntegrated => m_missilePosition[2] <= frameLog.missileYBefore

\* C5 witness: an active missile that has fallen in this frame
C5_MissileFell ==
    /\ pc = "tick" /\ m_missileActive /\ frameLog.missileIntegrated
    /\ ~frameLog.missileDropped
    /\ m_missilePosition[2] < frameLog.missileYBefore

StrictlyBetween(x, a, b) == (a < x /\ x < b) \/ (b < x /\ x < a)
PoseStrictlyBetween(k0, k1) ==
    /\ \A i \in 1..3 : StrictlyBetween(m_camera.position[i], k0.position[i], k1.position[i])
    /\ m_camera.yaw.kind = "deg" /\ StrictlyBetween(m_camera.yaw.deg, k0.yaw, k1.yaw)
    /\ m_camera.pitch.kind = "deg" /\ StrictlyBetween(m_camera.pitch.deg, k0.pitch, k1.pitch)

C9_KeyframesHitExactly ==
    \A i \in 0..4 :
        (AfterCameraMotion /\ Wrote("scripted") /\ m_totalTime = KeyframeTimes(m_config)[i]) =>
            CameraPoseIs(cameraKeyframes[i])

\* C2: at most one flag-surface job is outstanding at any time; a job is
\* launched only in a frame in which no earlier job is still un-collected,
\* and a frame whose poll finds the previous job unfinished launches none.
C2_AtMostOneFlagJob ==
    /\ Len(flagJobs) <= 1
    /\ m_flagUpdatePending <=> (Len(flagJobs) = 1)
    /\ flagLog.launched => flagLog.uncollected = 0
    /\ (flagLog.polled /\ ~flagLog.ready) => ~flagLog.launched

\* a frame polled a job that was still running and scheduled nothing
C2_SkippedScheduling ==
    /\ flagLog.polled /\ ~flagLog.ready /\ ~flagLog.launched
    /\ Len(flagJobs) = 1
    /\ flagJobs[1].targetTime < m_flagAnimationTime

\* C10: in the scripted segments and in the resume transition the yaw
\* difference that is interpolated is at most 180 degrees in absolute
\* value for every pair of start / end yaws, and the interpolated yaw
\* never moves further than 180 degrees from the (normalised) start yaw.
C10_YawDiffWithinHalfTurn ==
    yawOutput.done =>
        /\ Abs(yawOutput.scriptedDiff) <= Deg(180)
        /\ Abs(yawOutput.resumeDiff) <= Deg(180)
        /\ yawOutput.scriptedSweep <= Deg(180)
        /\ yawOutput.resumeSweep <= Deg(180)

\* a pair whose normalised yaws lie more than 180 degrees apart was interpolated
C10_FoldedPair ==
    /\ yawOutput.done
    /\ Abs(NormalizeYaw(yawInput[2]) - NormalizeYaw(yawInput[1])) > Deg(180)
    /\ Abs(yawInput[1]) > Deg(180)
    /\ yawOutput.scriptedDiff /= 0
    /\ yawOutput.resumeDiff = yawOutput.scriptedDiff

Ascending(l) == l.p0y <= l.p1y /\ l.p1y <= l.p2y /\ l.p2y <= l.p3y

\* C6: after spawnLantern returns, the control points of the lantern it
\* activated satisfy p0.y <= p1.y <= p2.y <= p3.y, whatever the random
\* draws and whatever the configured speed, lifetime and height ranges.
C6_ControlPointsAscend ==
    \A i \in 1..Len(m_lanternInstances) : Ascending(m_lanternInstances[i])

\* a lantern whose second and end point were both lifted by the repair
C6_RepairedLantern ==
    /\ lanternLog.spawned > 0
    /\ \E i \in lanternLog.fresh :
          LET l == m_lanternInstances[i]
          IN  /\ l.active
              /\ l.p1y > 0
              /\ l.p2y = l.p1y + 100000
              /\ l.p3y = l.p2y + 100000

\* C7: after any sequence of emit() and update() calls activeParticleCount()
\* is at most the configured maximum, and an emit() on a full pool returns
\* with the particle list exactly as it was.
C7_PoolNeverOverflows ==
    /\ activeParticleCount <= m_maxParticles
    /\ (particleLog.op = "emit" /\ particleLog.full) =>
          /\ m_particles = particleLog.before
          /\ activeParticleCount = particleLog.countBefore

\* an emit() came back from a pool that was full of live particles
C7_EmitOnFullPool ==
    /\ particleLog.op = "emit" /\ particleLog.full
    /\ m_maxParticles = MaxParticles
    /\ activeParticleCount = m_maxParticles
    /\ \E i \in 1..Len(m_particles) : m_particles[i].age > 0

\* the pose recorded when the airplane despawned
SnapshotPose ==
    /\ m_camera.position = m_cameraWhenAirplaneDisappeared.position
    /\ m_camera.yaw = m_cameraWhenAirplaneDisappeared.yaw
    /\ m_camera.pitch = m_cameraWhenAirplaneDisappeared.pitch

\* C11: in the first frame after the frame in which the airplane despawned
\* following a missile explosion, updateCameraMotion sets the camera to
\* exactly the recorded snapshot pose, whatever the frame delta.
C11_FirstResumeFrameReplaysSnapshot ==
    (AfterCameraMotion /\ m_resumingToKeyframe4 /\ runLog.sinceDespawn = 2
        /\ m_config = DefaultConfig) => SnapshotPose

\* the resume transition has run for its whole duration
ResumeElapsed ==
    m_totalTime - m_airplaneDisappearTime >= Seconds(m_config.cameraTransitionTimes[5])

\* C12: in the resume transition, once totalTime - airplaneDisappearTime >=
\* cameraTransitionTimes[4] the camera pose is keyframe[5] and the field of
\* view is finalFOV exactly, in that frame and in every later one.
C12_ResumeEndsAtFinalKeyframe ==
    (AfterCameraMotion /\ frameLog.phase = "resume" /\ ResumeElapsed) =>
        /\ CameraPoseIs(cameraKeyframes[5])
        /\ m_camera.fov = m_config.finalFOV * 1000

\* the camera is at the final keyframe with the final field of view
AtFinalKeyframe ==
    /\ CameraPoseIs(cameraKeyframes[5])
    /\ m_camera.fov = m_config.finalFOV * 1000

\* airplane and missile are both inactive
BothInactive == ~m_airplaneActive /\ ~m_missileActive

C14_GazeEndsOnceAirplaneGone ==
    (AfterCameraMotion /\ m_config.enableCameraMotion
        /\ m_missileExploded /\ ~m_airplaneActive
        /\ m_totalTime >= m_missileExplosionTime + Seconds(m_config.airplaneLifetime)) =>
        frameLog.phase = "resume"

\* the step in which the resume flag rises
ResumeFlagRises == ~m_resumingToKeyframe4 /\ m_resumingToKeyframe4'

\* the airplane update in which the airplane despawns
AirplaneDespawns == pc = "airplane" /\ frameLog'.airplaneDespawned

\* C15: the resume flag rises exactly in the airplane update in which the
\* airplane despawns while missileExploded is already true; that update
\* records the camera position, yaw and pitch and the disappear time; the
\* flag never falls, and in every reachable state the flag implies
\* missileExploded and not airplaneActive.
C15_ResumeFlagSetAtDespawnAfterExplosion ==
    /\ [](m_resumingToKeyframe4 => (m_missileExploded /\ ~m_airplaneActive))
    /\ [][/\ ResumeFlagRises => (AirplaneDespawns /\ m_missileExploded)
          /\ (AirplaneDespawns /\ m_missileExploded) => m_resumingToKeyframe4'
          /\ AirplaneDespawns =>
                /\ ~m_airplaneActive'
                /\ m_airplaneDisappearTime' = m_totalTime
                /\ m_cameraWhenAirplaneDisappeared' =
                      [position |-> m_camera.position, yaw |-> m_camera.yaw, pitch |-> m_camera.pitch]
          /\ m_resumingToKeyframe4 => m_resumingToKeyframe4']_vars

\* just after the airplane update that despawned the airplane and raised
\* the resume flag
C15_FlagRaisedInDespawnFrame ==
    /\ pc = "missile"
    /\ frameLog.airplaneDespawned
    /\ m_resumingToKeyframe4
    /\ m_airplaneDisappearTime = m_totalTime

\* the step in which the missile is spawned
MissileSpawns == ~m_missileHasSpawned /\ m_missileHasSpawned'

\* C16: in every reachable state missileHasSpawned implies
\* airplaneHasSpawned, and the missile is spawned only by a missile update
\* that finds the airplane active.
C16_MissileSpawnsFromActiveAirplane ==
    /\ [](m_missileHasSpawned => m_airplaneHasSpawned)
    /\ [][MissileSpawns =>
            /\ pc = "missile"
            /\ m_airplaneActive /\ m_airplaneHasSpawned
            /\ m_missileActive' /\ frameLog'.missileDropped]_vars

\* the end of the frame in which the missile was dropped
C16_MissileDroppedThisFrame ==
    /\ FrameEnd
    /\ frameLog.missileDropped
    /\ m_missileHasSpawned /\ m_airplaneActive

\* the frame had an entity-driven event: a camera write by airplane or
\* missile tracking, a missile drop or a missile explosion
EntityActed ==
    \/ Wrote("airplane")
    \/ Wrote("missile")
    \/ frameLog.missileDropped
    \/ frameLog.missileExplodedNow

\* C17 as stated: for every configuration, no airplane or missile camera
\* write, missile drop or missile explosion occurs in a frame whose total
\* time is below the cumulative time of keyframe 4.
C17_NoEntityEventBeforeKeyframe4 ==
    (FrameEnd /\ m_totalTime < KeyframeTimes(m_config)[4]) => ~EntityActed

\* C17: no airplane or missile camera write, missile drop or missile
\* explosion occurs in a frame whose total time is below airplaneSpawnTime,
\* and no missile drop or explosion in a frame whose total time is below
\* airplaneSpawnTime + missileDropTime; the frames before keyframe 4's
\* cumulative time are free of them when airplaneSpawnTime is not below
\* that time.
C17_NoEntityEventBeforeAirplaneSpawn ==
    FrameEnd =>
        /\ m_totalTime < Seconds(m_config.airplaneSpawnTime) =>
              (~EntityActed /\ ~m_airplaneHasSpawned /\ ~m_missileHasSpawned)
        /\ m_totalTime < Seconds(m_config.airplaneSpawnTime + m_config.missileDropTime) =>
              (~frameLog.missileDropped /\ ~frameLog.missileExplodedNow)
        /\ (m_totalTime < KeyframeTimes(m_config)[4]
                /\ Seconds(m_config.airplaneSpawnTime) >= KeyframeTimes(m_config)[4]) =>
              ~EntityActed

\* the last frame before the airplane's spawn time, the scripted path
\* already finished
C17_LastFrameBeforeSpawn ==
    /\ FrameEnd
    /\ m_totalTime >= KeyframeTimes(m_config)[4]
    /\ m_totalTime < Seconds(m_config.airplaneSpawnTime)
    /\ m_totalTime + 1 >= Seconds(m_config.airplaneSpawnTime)
    /\ ~m_airplaneHasSpawned

\* the end of a frame that began with missileExploded already true
FrameAfterExplosion ==
    FrameEnd /\ m_missileExploded /\ ~frameLog.missileExplodedNow

FlagJobState ==
    IF m_flagUpdateFuture = 0 THEN "none"
    ELSE IF flagJobs[m_flagUpdateFuture].done THEN "finished"
    ELSE IF flagJobs[m_flagUpdateFuture].started THEN "running"
    ELSE "notStarted"

\* C19: whatever the state of the background job (not started, running,
\* finished), no call of the frame's updateFlagAnimation step waits for it:
\* the poll does not block, get() is called only on a finished job, and a
\* new job is assigned only to a future that owns no job; a frame that
\* finds the job unfinished leaves it alone and advances the flag time.
C19_FrameNeverWaits ==
    /\ ~flagLog.waited
    /\ flagLog.applied => flagLog.ready
    /\ (flagLog.polled /\ ~flagLog.ready) =>
          (~flagLog.launched /\ FlagJobState \in {"notStarted", "running", "finished"})

\* frames kept advancing the flag time while the job launched earlier has
\* not even started
C19_FramesPassUnfinishedJob ==
    /\ flagLog.polled /\ ~flagLog.ready /\ ~flagLog.waited
    /\ FlagJobState = "notStarted"
    /\ m_flagAnimationTime >= flagJobs[m_flagUpdateFuture].targetTime + 2 * MaxDeltaTicks

\* the list one sequential pass over the whole of the list makes, expired
\* particles removed
SequentialResult(particles, dt) ==
    RemoveExpired(ProcessRange(particles, 1, Len(particles) + 1, dt))

\* C20: update leaves the same list whether the integration ran as one
\* sequential pass or as the two concurrent partitions [0, mid) and
\* [mid, size), in every interleaving of the two threads: the partitions
\* are disjoint and cover every index, no particle is integrated twice,
\* and when the removal of expired particles starts both partitions have
\* finished and every particle has been integrated exactly once.
C20_ParallelEqualsSequential ==
    /\ \A i \in 1..Len(updateLog.visits) : updateLog.visits[i] <= 1
    /\ updatePc = "parallel" =>
          /\ updateThreads.main.begin = 1
          /\ updateThreads.main.end = updateThreads.worker.begin
          /\ updateThreads.worker.end = Len(updateLog.before) + 1
    /\ updatePc = "erase" =>
          /\ updateThreads.main.next = updateThreads.main.end
          /\ updateThreads.worker.next = updateThreads.worker.end
          /\ \A i \in 1..Len(updateLog.visits) : updateLog.visits[i] = 1
          /\ m_particles = ProcessRange(updateLog.before, 1, Len(updateLog.before) + 1, updateLog.dt)
    /\ updateLog.done =>
          m_particles = SequentialResult(updateLog.before, updateLog.dt)

\* an update of a full list ran as two concurrent partitions and removed
\* some but not all particles
C20_SplitUpdateRemovedSome ==
    /\ updateLog.done /\ updateLog.parallel
    /\ updateLog.dt > 0
    /\ Len(updateLog.before) = MaxParticles
    /\ Len(m_particles) > 0
    /\ Len(m_particles) < Len(updateLog.before)

\* the indices of the particles whose age, grown by d, is below their lifetime
Survivors(particles, d) ==
    SelectSeq([i \in 1..Len(particles) |-> i],
              LAMBDA i : particles[i].age + d < particles[i].lifetime)

\* C21: a call of update(dt) leaves exactly the particles whose age, grown
\* by max(0, dt), is below their lifetime, in their former order, each with
\* its age grown by exactly max(0, dt); every particle in the pool has
\* age < lifetime.
C21_UpdateAgesAndRemovesExpired ==
    /\ [](\A k \in 1..Len(m_particles) : m_particles[k].age < m_particles[k].lifetime)
    /\ [][particleLog'.op = "update" =>
            LET d == Max2(0, particleLog'.dt)
                kept == Survivors(m_particles, d)
            IN  /\ Len(m_particles') = Len(kept)
                /\ \A k \in 1..Len(kept) :
                      /\ m_particles'[k].age = m_particles[kept[k]].age + d
                      /\ m_particles'[k].lifetime = m_particles[kept[k]].lifetime
                      /\ m_particles'[k].acceleration = m_particles[kept[k]].acceleration]_vars

\* an update with a positive delta removed some particles and kept others
C21_UpdateRemovedSome ==
    /\ particleLog.op = "update"
    /\ particleLog.dt > 0
    /\ Len(m_particles) > 0
    /\ Len(m_particles) < particleLog.countBefore

\* the number of active lanterns
ActiveLanterns == Cardinality({ i \in 1..Len(m_lanternInstances) : m_lanternInstances[i].active })

\* C22: in a frame whose spawn timer expires the number of lanterns
\* activated is the drawn count clamped to [0, number of inactive slots],
\* also when the pool is exhausted; no lantern is activated in any other
\* frame; the pool keeps the size it was set up with and the number of
\* active lanterns never exceeds it.
C22_SpawnCountClampedToFreeSlots ==
    /\ Len(m_lanternInstances) = Len(LanternPool(lanternConfig))
    /\ ActiveLanterns <= Len(m_lanternInstances)
    /\ Cardinality(lanternLog.fresh) = lanternLog.spawned
    /\ lanternLog.spawned >= 0
    /\ lanternLog.spawned <= lanternLog.available
    /\ lanternLog.due =>
          (lanternLog.spawned =
             IF lanternLog.drawn < 0 THEN 0
             ELSE IF lanternLog.drawn > lanternLog.available THEN lanternLog.available
             ELSE lanternLog.drawn)
    /\ ~lanternLog.due => lanternLog.spawned = 0

\* the spawn timer expired while every slot of the pool was in use
C22_TimerExpiredOnExhaustedPool ==
    /\ lanternLog.ran /\ lanternLog.due
    /\ lanternLog.available = 0
    /\ lanternLog.drawn > 0
    /\ lanternLog.spawned = 0
    /\ Len(m_lanternInstances) > 0

LanternActive(i) == m_lanternInstances[i].active

\* C23: a lantern that is active when the ageing loop of updateLanterns
\* reaches it has its age advanced by the frame's dt; it is deactivated
\* (inactive, age 0, duration 0, mesh zero-scaled) in the frame where the
\* advanced age reaches its duration and in no earlier one, so at the end of
\* every lantern update an active lantern has age < duration.  Lifetimes are
\* positive in every configuration of LanternConfigs.
C23_LanternAgesUntilDuration ==
    /\ \A i \in 1..Len(m_lanternInstances) :
          LanternActive(i) => m_lanternInstances[i].age < m_lanternInstances[i].duration
    /\ lanternLog.ran =>
          /\ Len(lanternLog.before) = Len(m_lanternInstances)
          /\ \A i \in 1..Len(m_lanternInstances) :
                LET b == lanternLog.before[i]
                    a == m_lanternInstances[i]
                IN  IF ~b.active
                    THEN a = b /\ lanternLog.meshCalls[i] = "none"
                    ELSE IF b.age + lanternLog.dt >= b.duration
                    THEN /\ ~a.active /\ a.age = 0 /\ a.duration = 0
                         /\ lanternLog.meshCalls[i] = "zero"
                    ELSE /\ a.active /\ a.age = b.age + lanternLog.dt
                         /\ a.duration = b.duration
                         /\ lanternLog.meshCalls[i] = "lanternScale"

\* a frame that retired a lantern aged over earlier frames and kept another
C23_LanternRetiredAtDuration ==
    /\ lanternLog.ran /\ lanternLog.dt > 0
    /\ \E i \in 1..Len(m_lanternInstances) :
          /\ lanternLog.before[i].active /\ lanternLog.before[i].age > 0
          /\ lanternLog.before[i].age < lanternLog.before[i].duration
          /\ ~LanternActive(i)
    /\ \E j \in 1..Len(m_lanternInstances) :
          LanternActive(j) /\ m_lanternInstances[j].age > 0

\* the slots of the active lanterns, in pool order
ActiveSlots == SelectSeq([i \in 1..Len(m_lanternInstances) |-> i], LanternActive)

\* C24: every frame's updateLanterns calls setLanternLights exactly once, with
\* one light per lantern that is active when the update returns; the list is
\* empty when lanterns are disabled, before lanternSpawnStartTime and when no
\* lantern is active, so no earlier frame's list survives a frame.
C24_OneLightListPerFrame ==
    [][/\ lanternLog'.pushes = 1
       /\ lanternLog'.lights = ActiveSlots'
       /\ Len(lanternLog'.lights) = ActiveLanterns'
       /\ (\/ ~lanternConfig'.enableLanterns
           \/ lanternTotalTime' < lanternConfig'.lanternSpawnStartTime * TicksPerSecond
           \/ ActiveLanterns' = 0) => lanternLog'.lights = << >>]_vars

\* a frame that pushed the empty list after retiring the last active lantern,
\* which had a light in the list of the frame before
C24_EmptyListAfterLastLanternRetired ==
    /\ lanternLog.ran /\ lanternLog.pushes = 1 /\ lanternLog.lights = << >>
    /\ \E i \in 1..Len(lanternLog.before) :
          lanternLog.before[i].active /\ lanternLog.before[i].age > 0
    /\ lanternTotalTime >= lanternConfig.lanternSpawnStartTime * TicksPerSecond

\* the four jitter values of a control point
Jitter(point) ==
    << point.randomPhase, point.randomAmplitudeScale,
       point.randomFrequencyScale, point.randomDrift >>

\* the control points a call displaced, read from its first vertex
PointsOf(call) ==
    [ k \in 1..Len(call.result.vertices[1].position) |->
        call.result.vertices[1].position[k][2] ]

C26_MissLoggedOncePerName ==
    \A n \in MeshNames : meshLog[n].misses > 0 => meshLog[n].logged = 1

\* the misses the per-frame placement of the airplane, the wingmen and the
\* missile has met are logged once each, and the other calls log nothing
MeshMissesLoggedByPlacement ==
    \A n \in MeshNames :
        /\ meshLog[n].logged = IF n \in warned THEN 1 ELSE 0
        /\ n \in warned => n \in { "airplane", "missile" } \cup WingmanNames

\* C27: at the end of the frame in which the missile reaches the ground the
\* camera stands at cameraKeyframes[4].position and looks at the recorded
\* explosion position, set by the missile update as the last writer of the
\* frame whatever updateCameraMotion and the airplane wrote before, and the
\* missile mesh is zero-scaled.
C27_ImpactFrameCutsToKeyframe4 ==
    (FrameEnd /\ frameLog.missileExplodedNow) =>
        /\ m_camera.position = cameraKeyframes[4].position
        /\ m_camera = lookAt(setPosition(m_camera, cameraKeyframes[4].position),
                             m_missileExplosionPosition)
        /\ m_missileExplosionPosition[2] = m_config.groundHeight * 1000
        /\ frameLog.writers[Len(frameLog.writers)] = "missile"
        /\ meshTransform["missile"] = ZeroScaled
        /\ ~m_missileActive /\ m_missileExploded

\* an impact frame in which updateCameraMotion had written a pose of the
\* scripted path before the missile update cut the camera
C27_CutOverridesCameraMotion ==
    /\ FrameEnd /\ frameLog.missileExplodedNow
    /\ frameLog.phase = "scripted"
    /\ frameLog.writers = << "scripted", "missile" >>

\* C28: at the end of every frame in which the missile is active the spin
\* angle m_missileRotationAngle lies in [0, 360) degrees, whatever the
\* configured rotation speed and the frame delta.
C28_SpinAngleWithinTurn ==
    (FrameEnd /\ m_missileActive) =>
        (0 <= m_missileRotationAngle /\ m_missileRotationAngle < 360000)

\* C29: at the end of every frame the transform of each wingman mesh is
\* zero-scaled exactly if the transform of the airplane mesh is, and while the
\* airplane is active each wingman stands at the airplane position plus its
\* offset along right (0, 0, 1), up (0, 1, 0) and forward (1, 0, 0).
C29_WingmenFollowAirplane ==
    FrameEnd =>
        \A n \in WingmanNames :
            /\ (meshTransform[n].scale = "zero") <=> (meshTransform["airplane"].scale = "zero")
            /\ m_airplaneActive =>
                  /\ m_wingmanPosition[n] =
                        << m_airplanePosition[1] + 1000 * WingmanOffsets[n][3],
                           m_airplanePosition[2] + 1000 * WingmanOffsets[n][2],
                           m_airplanePosition[3] + 1000 * WingmanOffsets[n][1] >>
                  /\ meshTransform[n].position = m_wingmanPosition[n]
                  /\ meshTransform["airplane"].position = m_airplanePosition

\* the frame of the despawn: the airplane and the wingmen, placed in the
\* frames before, are hidden together
C29_FormationHiddenAtDespawn ==
    /\ FrameEnd /\ frameLog.airplaneDespawned
    /\ \A n \in WingmanNames \cup { "airplane" } : meshTransform[n] = ZeroScaled
    /\ \A n \in WingmanNames : m_wingmanPosition[n] # Zero3

\* C30: while the airplane is active its position at the end of a frame is
\* airplaneStartPosition + (0, airplaneHeight, 0) + (m_totalTime -
\* m_airplaneSpawnTime) * airplaneSpeed * direction, direction being (1, 0, 0):
\* a function of the configuration and the time since the spawn alone, so
\* every split of that time into frames ends at the same position.
C30_AirplanePositionFromElapsedTime ==
    (FrameEnd /\ m_airplaneActive) =>
        m_airplanePosition =
            << 1000 * m_config.airplaneStartPosition[1]
                 + (1000 * m_config.airplaneSpeed * (m_totalTime - m_airplaneSpawnTime)) \div TicksPerSecond,
               1000 * (m_config.airplaneStartPosition[2] + m_config.airplaneHeight),
               1000 * m_config.airplaneStartPosition[3] >>

\* an active airplane three ticks after its spawn at the end of a frame of
\* one tick: the three ticks were split as 2 + 1 or as 1 + 1 + 1
C30_AirplaneAfterUnevenFrames ==
    /\ FrameEnd /\ m_airplaneActive /\ m_airplaneHasSpawned
    /\ m_totalTime - m_airplaneSpawnTime = 3
    /\ deltaSeconds = 1

\* the missile update finds the drop due: the airplane has spawned, is still
\* active, and totalTime - airplaneSpawnTime >= missileDropTime
DropConditionHolds ==
    /\ pc = "missile"
    /\ m_airplaneHasSpawned
    /\ m_airplaneActive
    /\ m_totalTime - m_airplaneSpawnTime >= Seconds(m_config.missileDropTime)

\* C31: the missile is dropped in the first frame in which, at the time of the
\* missile update, the airplane has spawned, is still active and totalTime -
\* airplaneSpawnTime >= missileDropTime; it starts at the airplane's position
\* of that frame; it is dropped at most once; and once the airplane has
\* despawned without a drop the missile is never dropped.
C31_MissileDroppedOnceWhenFirstDue ==
    [][/\ MissileSpawns <=> (DropConditionHolds /\ ~m_missileHasSpawned)
       /\ MissileSpawns =>
             /\ frameLog'.missileDropped
             /\ m_missileSpawnTime' = m_totalTime
             /\ frameLog'.missileYBefore = m_airplanePosition[2]
             /\ m_airplanePosition =
                   AirplanePositionAt(m_config, m_totalTime - m_airplaneSpawnTime)
             /\ m_missilePosition' =
                   IntegrateMissile(m_airplanePosition, DropVelocity(m_config), deltaSeconds)
       /\ m_missileHasSpawned =>
             /\ m_missileHasSpawned'
             /\ m_missileSpawnTime' = m_missileSpawnTime
             /\ pc = "missile" => ~frameLog'.missileDropped
       /\ (m_airplaneHasSpawned /\ ~m_airplaneActive /\ ~m_missileHasSpawned) =>
             (~m_missileHasSpawned' /\ ~m_missileActive' /\ ~m_airplaneActive')]_vars

\* the end of the frame in which the missile was dropped, the frame before
\* having come too early for it
C31_DroppedInFirstDueFrame ==
    /\ FrameEnd
    /\ frameLog.missileDropped
    /\ m_missileSpawnTime = m_totalTime
    /\ m_totalTime - m_airplaneSpawnTime = Seconds(m_config.missileDropTime)
    /\ runLog.prevTime < m_totalTime

\* p3.y - p0.y of a lantern lies within the configured band
EndHeightWithinBand(l) ==
    /\ l.p3y - l.p0y >= lanternConfig.lanternTargetHeightMin * 1000
    /\ l.p3y - l.p0y <= lanternConfig.lanternTargetHeightMax * 1000

\* C32 as stated: after spawnLantern, repair included, the end height
\* p3.y - p0.y of the lantern it activated lies within
\* [lanternTargetHeightMin, lanternTargetHeightMax], for every outcome of the
\* random draws and every configured band.
C32_EndHeightWithinBand ==
    \A i \in lanternLog.fresh : EndHeightWithinBand(lanternLog.before[i])

\* a frame of updateFlagAnimation has run
FlagFrameRan == flagLog.polled \/ flagLog.launched

\* the step is the frame that collects the finished job: only a frame
\* changes a job that is done
AppliesResult ==
    /\ flagJobs # << >>
    /\ flagJobs[1].done
    /\ flagJobs' # flagJobs

\* C33 as stated: every flag job that is launched has its result applied to
\* the flag mesh (none is lost), and at the end of every frame with a flag
\* present a job is pending.
C33_EveryLaunchedJobApplied ==
    /\ flagRun.discarded = 0
    /\ (m_flagExists /\ FlagFrameRan) => m_flagUpdatePending

\* C33: a launched job stays in the future until a frame applies its result,
\* which happens at most once and in launch order (the job applied is the
\* only one outstanding); the time stamp applied never decreases and never
\* exceeds the current flag animation time; the frame that applies a result
\* launches the next job, so at the end of every frame with a flag present
\* exactly one job is pending; and that job is never applied if the frame
\* loop exits first: the exit discards exactly the one pending job.
C33_JobsAppliedOnceInLaunchOrder ==
    /\ [](flagMesh <= m_flagAnimationTime)
    /\ []((m_flagExists /\ FlagFrameRan) =>
            (m_flagUpdatePending /\ Len(flagJobs) = 1 /\ m_flagUpdateFuture = 1))
    /\ [](flagRun.exited =>
            flagRun.discarded = (IF m_flagExists /\ FlagFrameRan THEN 1 ELSE 0))
    /\ [][/\ flagMesh' >= flagMesh
          /\ flagMesh' # flagMesh => AppliesResult
          /\ AppliesResult =>
                /\ ~flagRun.exited
                /\ flagMesh' = flagJobs[1].targetTime
                /\ flagLog'.applied /\ flagLog'.launched
                /\ flagLog'.uncollected = 0
                /\ flagJobs' = << [targetTime |-> m_flagAnimationTime',
                                   started |-> FALSE, done |-> FALSE] >>
          /\ (flagJobs # << >> /\ ~AppliesResult) =>
                /\ Len(flagJobs') = Len(flagJobs)
                /\ flagJobs'[1].targetTime = flagJobs[1].targetTime
                /\ flagJobs[1].started => flagJobs'[1].started
                /\ flagJobs[1].done => flagJobs'[1].done]_vars

\* the loop exited after a result had been applied, the job launched after
\* it finished but never collected
C33_ExitDiscardsFinishedJob ==
    /\ flagRun.exited
    /\ flagRun.discarded = 1
    /\ flagJobs[1].done
    /\ flagMesh > 0
    /\ flagJobs[1].targetTime > flagMesh

\* the pose of the explosion gaze: keyframe 4's position, looking at the
\* explosion position
GazePose ==
    LET gaze == lookAt(setPosition(m_camera, cameraKeyframes[4].position),
                       m_missileExplosionPosition)
    IN  [position |-> gaze.position, yaw |-> gaze.yaw, pitch |-> gaze.pitch]

\* C34 as stated: whenever the airplane despawns after the missile explosion,
\* the camera pose snapshotted at the despawn is the one updateCameraMotion
\* set earlier in the same frame: its position is keyframe 4's position and
\* its rotation looks at the explosion position.
C34_SnapshotIsExplosionGaze ==
    (pc = "missile" /\ frameLog.airplaneDespawned /\ m_missileExploded) =>
        /\ frameLog.writers = << "scripted" >>
        /\ m_cameraWhenAirplaneDisappeared = GazePose

\* the place of the branch updateCameraMotion takes in the present state:
\* the scripted segments 0 to 3, the hold at keyframe 4, the explosion gaze,
\* the resume transition, the resume transition with its duration elapsed,
\* the fallback
CameraRank ==
    LET phase == CameraPhase(m_config, m_totalTime, m_missileExploded, m_resumingToKeyframe4)
        t == LocalT(m_totalTime, m_airplaneDisappearTime,
                    Seconds(m_config.cameraTransitionTimes[5]))
    IN  CASE phase = "scripted" -> CurrentSegment(KeyframeTimes(m_config), m_totalTime)
          [] phase = "hold" -> 4
          [] phase = "gaze" -> 5
          [] phase = "resume" ->
                IF ~FirstFrameAfterDisappear(m_totalTime, m_airplaneDisappearTime) /\ t.a >= t.b
                THEN 7 ELSE 6
          [] OTHER -> 8

\* C35, for the default configuration: the camera phase only moves forward: scripted segments by increasing
\* index, then the hold at keyframe 4, then the explosion gaze, then the
\* resume transition, then the final keyframe; updateCameraMotion runs the
\* branch of the present phase, and once a later phase has been entered no
\* branch of an earlier phase runs again.
C35_CameraPhaseOnlyMovesForward ==
    [][LET rank == CameraRank
           rankAfter == CameraRank'
       IN  /\ rankAfter >= rank
           /\ pc = "camera" =>
                 /\ frameLog'.phase =
                       CameraPhase(m_config, m_totalTime, m_missileExploded,
                                   m_resumingToKeyframe4)
                 /\ rankAfter = rank
                 /\ rank <= 3 <=> frameLog'.phase = "scripted"
                 /\ rank = 4 <=> frameLog'.phase = "hold"
                 /\ rank = 5 <=> frameLog'.phase = "gaze"
                 /\ rank \in { 6, 7 } <=> frameLog'.phase = "resume"
                 /\ rank = 7 => m_camera'.position = cameraKeyframes[5].position]_vars

\* the camera has gone through the scripted path, the hold, the gaze and the
\* resume transition and stands at the final keyframe
C35_AllPhasesPassed ==
    /\ FrameEnd
    /\ m_config = DefaultConfig
    /\ m_reachedKeyframe3 /\ m_missileExploded /\ m_resumingToKeyframe4
    /\ frameLog.phase = "resume"
    /\ CameraRank = 7
    /\ AtFinalKeyframe

\* C36: in every reachable state missileActive and missileExploded are never
\* both true, missileActive implies missileHasSpawned, missileExploded
\* implies missileHasSpawned, and airplaneHasSpawned, missileHasSpawned,
\* missileExploded, the resume flag and the reached-keyframe flag are never
\* reset to false once they are true.
C36_MissileFlagsConsistentAndLatched ==
    /\ [](/\ ~(m_missileActive /\ m_missileExploded)
          /\ m_missileActive => m_missileHasSpawned
          /\ m_missileExploded => m_missileHasSpawned)
    /\ [][/\ m_airplaneHasSpawned => m_airplaneHasSpawned'
          /\ m_missileHasSpawned => m_missileHasSpawned'
          /\ m_missileExploded => m_missileExploded'
          /\ m_resumingToKeyframe4 => m_resumingToKeyframe4'
          /\ m_reachedKeyframe3 => m_reachedKeyframe3']_vars

\* every latching flag is set, the missile gone, and frames keep coming
C36_AllFlagsLatched ==
    /\ FrameEnd
    /\ m_airplaneHasSpawned /\ m_missileHasSpawned /\ m_missileExploded
    /\ m_resumingToKeyframe4 /\ m_reachedKeyframe3
    /\ ~m_missileActive /\ ~m_airplaneActive
    /\ frameLog.phase = "resume"
    /\ m_totalTime > m_airplaneDisappearTime + 1

\* lantern i is active and the time bound leaves room for the rest of its
\* lifetime
ExpiryWithinHorizon(i) ==
    /\ LanternActive(i)
    /\ lanternTotalTime + (m_lanternInstances[i].duration - m_lanternInstances[i].age)
          <= MaxLanternTime

\* C37: for lifetimes above zero, if frames keep arriving with a positive
\* deltaSeconds every lantern that is activated is eventually deactivated,
\* and its slot is available to a later spawn (it counts as free and the
\* search for a free slot finds it or one before it); a deactivated slot
\* always has age = 0 and duration = 0.
C37_ActivatedLanternEventuallyFreed ==
    /\ [](\A i \in 1..Len(m_lanternInstances) :
            ~LanternActive(i) =>
                /\ m_lanternInstances[i].age = 0
                /\ m_lanternInstances[i].duration = 0
                /\ Available(m_lanternInstances) >= 1
                /\ FirstInactive(m_lanternInstances) \in 1..i)
    /\ \A i \in 1..SmallLanternConfig.lanternPoolSize :
          ExpiryWithinHorizon(i) ~> ~LanternActive(i)

\* the frame spawned into slot 2 because slot 1 was still taken, and then
\* deactivated the lantern of slot 1, which is the free slot again
C37_SlotFreedAfterLifetime ==
    /\ lanternLog.fresh = { 2 }
    /\ LanternActive(2)
    /\ lanternLog.before[1].active
    /\ ~LanternActive(1)
    /\ m_lanternInstances[1].p3y > 0
    /\ FirstInactive(m_lanternInstances) = 1

\* the step in which the missile becomes inactive
MissileDeactivates == m_missileActive /\ ~m_missileActive'

\* C38: for a missile that falls (the default fall angle and speed), if
\* frames keep arriving with a positive deltaSeconds every missile that is
\* dropped eventually explodes: it reaches position.y <= groundHeight and is
\* deactivated; and the missile becomes inactive in no other way than by
\* the missile update that finds it at or below the ground.
C38_DroppedMissileEventuallyExplodes ==
    /\ m_missileActive ~> (m_missileExploded /\ ~m_missileActive)
    /\ [][MissileDeactivates =>
             /\ pc = "missile"
             /\ frameLog'.missileExplodedNow
             /\ m_missileExploded'
             /\ HitsGround(m_config, m_missilePosition')
             /\ m_missileExplosionTime' = m_totalTime]_vars

\* the missile has exploded after falling for several frames
C38_ExplodedAfterFall ==
    /\ FrameEnd
    /\ frameLog.missileExplodedNow
    /\ ~frameLog.missileDropped
    /\ ~m_missileActive
    /\ m_totalTime >= m_missileSpawnTime + Seconds(3)
    /\ m_missilePosition[2] <= GroundLevel

----------------------------------------------------------------------------
(* Properties of the airplane trail                                        *)

TrailEmitters == 0..(kTrailEmitters - 1)
TrailAttempts == trailLog.attempts[0] + trailLog.attempts[1] + trailLog.attempts[2]
                     + trailLog.attempts[3] + trailLog.attempts[4]

\* C39: trail particles are emitted only by a call of updateParticleEffects
\* that finds the airplane active; every accumulator lies in [0, 1), after
\* every call of emitTrailParticles in particular; and a call takes one off
\* the accumulator for every emit it attempts, accepted by the pool or not.
C39_TrailAccumulatorsStayBelowOne ==
    /\ (TrailAttempts > 0 \/ trailLog.accepted > 0) =>
           (trailLog.active /\ trailLog.called)
    /\ \A i \in TrailEmitters :
           /\ 0 <= m_trailSpawnAccumulators[i]
           /\ m_trailSpawnAccumulators[i] < TrailOne
    /\ trailLog.called =>
           /\ trailLog.active
           /\ trailLog.accepted <= TrailAttempts
           /\ \A i \in TrailEmitters :
                m_trailSpawnAccumulators[i] =
                    trailLog.before[i]
                    + Max2(0, trailConfig.airplaneTrailSpawnRate) * trailLog.dt
                    - trailLog.attempts[i] * TrailOne

\* a call emitted for every emitter, the pool refusing some of the
\* particles, and left a fraction in the accumulators
C39_PoolRefusedSomeEmits ==
    /\ trailLog.called
    /\ trailLog.accepted >= 1
    /\ trailLog.accepted < TrailAttempts
    /\ \A i \in TrailEmitters : trailLog.attempts[i] >= 1
    /\ m_trailSpawnAccumulators[0] > 0

=========================================================================
